---- MODULE Spec2Model ----
(***************************************************************************)
(* Verification model of the Icatu extractor/synchronizer.                 *)
(*   - sincronizar_banco.py : the batch operations that merge harvested    *)
(*     record lists into the relational store (one connection and one      *)
(*     transaction per batch, per-record try/except with conn.rollback()). *)
(*   - extrator_icatu.py    : the paginated listing loops of the API       *)
(*     client.                                                             *)
(* Python values are tagged records [ty, s]; text whose characters matter  *)
(* (documents, product status) is a sequence of one-character strings.     *)
(***************************************************************************)
EXTENDS Integers, Sequences, FiniteSets, TLC

VARIABLES
    db,          \* committed contents of the store (tables of rows)
    tx,          \* what the open connection sees: db plus its uncommitted work
    seq,         \* the store's id sequences (never rolled back)
    pc,          \* where the synchronizer is: idle / loop / done
    op,          \* the batch operation that is running or was run last
    batch,       \* the record list handed to the operation
    idx,         \* 1-based position of the next record of the batch
    cnt,         \* the operation's counters, as logged in its summary line
    log,         \* per record of the current run: what the loop body did
    snap,        \* the committed store when the current run started
    rerun,       \* "no": first run of the record list; "same" / "changed": the
                 \* second run, of the identical list or of the list with one
                 \* record changed in one field
    corretora_nome, \* the broker name taken from the file name
    faulted,     \* whether the store has already raised in this run
    now,         \* datetime.now(): [day, tick]
    id_cpf_map,  \* internal customer id -> cleaned document
    pg,          \* state of one paginated listing loop of the API client
    sem,         \* the API client's semaphore and the calls that go through it
    hv,          \* the loop of a workflow over the results of its detail calls
    fl,          \* main() of the synchronizer: the file it is working on
    bt           \* the control flow of one call of a batch function: its
                 \* connection, its try blocks, its commit

vars == <<db, tx, seq, pc, op, batch, idx, cnt, log, snap, rerun, corretora_nome,
          faulted, now, id_cpf_map, pg, sem, hv, fl, bt>>

\* What the actions of the harvester leave alone, and what those of the
\* synchronizer leave alone
syncVars == <<db, tx, seq, pc, op, batch, idx, cnt, log, snap, rerun, corretora_nome,
              faulted, now, id_cpf_map, fl, bt>>

harvestVars == <<pg, sem, hv, bt>>

\* What the actions on the control flow of a batch function leave alone
dataVars == <<db, tx, seq, pc, op, batch, idx, cnt, log, snap, rerun, corretora_nome,
              faulted, now, id_cpf_map, fl, pg, sem, hv>>

---------------------------------------------------------------------------
(* Bounds of the model and constants of the program *)

MaxBatch == 2
MaxDay == 3
TicksPerDay == 2

TENANT_ID == 20
INSURANCE_COMPANY_ID == 44

---------------------------------------------------------------------------
(* Python values *)

\* The payload s is always a sequence of strings: the characters of a text,
\* or one token standing for a text (or the digits of a number) whose
\* characters play no role.
PyNone == [ty |-> "none", s |-> << >>]
PyStr(t) == [ty |-> "str", s |-> t]
PyNum(t) == [ty |-> "num", s |-> <<t>>]
Txt(t) == PyStr(<<t>>)

\* Python truthiness: None, '' and 0 are falsy.
Truthy(v) ==
    CASE v.ty = "none" -> FALSE
      [] v.ty = "str" -> v.s # << >>
      [] OTHER -> v.s \notin {<<"0">>, <<"0.0">>}

IsStr(v) == v.ty = "str"

Digits == {"0", "1", "2", "3", "4", "5", "6", "7", "8", "9"}
IsDigit(c) == c \in Digits

\* Faulty variant: the document as it was given.
clean_cpf_as_given(cpf) == cpf

clean_cpf(cpf) ==
    IF IsStr(cpf) THEN PyStr(SelectSeq(cpf.s, IsDigit)) ELSE cpf

safe_str(value) ==
    CASE value.ty = "none" -> PyNone
      [] value.ty = "str" -> value
      [] OTHER -> PyStr(value.s)

\* str(x) of a value that is not None
py_str(value) == PyStr(value.s)

Lower == <<"a", "b", "c", "d", "e", "f", "g", "h", "i", "j", "k", "l", "m",
           "n", "o", "p", "q", "r", "s", "t", "u", "v", "w", "x", "y", "z">>
Upper == <<"A", "B", "C", "D", "E", "F", "G", "H", "I", "J", "K", "L", "M",
           "N", "O", "P", "Q", "R", "S", "T", "U", "V", "W", "X", "Y", "Z">>

UpperChar(c) ==
    IF \E k \in 1..Len(Lower) : Lower[k] = c
    THEN Upper[CHOOSE k \in 1..Len(Lower) : Lower[k] = c]
    ELSE c

upper(t) == [k \in 1..Len(t) |-> UpperChar(t[k])]

LowerChar(c) ==
    IF \E k \in 1..Len(Upper) : Upper[k] = c
    THEN Lower[CHOOSE k \in 1..Len(Upper) : Upper[k] = c]
    ELSE c

lower(t) == [k \in 1..Len(t) |-> LowerChar(t[k])]

\* Python's "sub in t" for two texts
Contains(sub, t) ==
    \E k \in 0..(Len(t) - Len(sub)) : SubSeq(t, k + 1, k + Len(sub)) = sub

\* A date text is <<format, day>>: "dmy" is %d/%m/%Y, "ymd" is %Y-%m-%d and
\* "iso" is a timestamp that neither format parses.
DayStr == <<"0", "1", "2", "3", "4", "5", "6", "7", "8", "9">>
DayNum(t) == (CHOOSE k \in 1..Len(DayStr) : DayStr[k] = t) - 1
DateText(f, d) == PyStr(<<f, DayStr[d + 1]>>)

format_db_date(date_str) ==
    IF ~Truthy(date_str) \/ ~IsStr(date_str) THEN PyNone
    ELSE IF date_str.s[1] \in {"dmy", "ymd"} THEN PyStr(<<"ymd", date_str.s[2]>>)
    ELSE PyNone

\* Faulty variant: the difference in days without the "data_hoje > data_venc"
\* guard, as Python's timedelta.days gives it (floor).
calculate_delay_days_signed(vencimento_original, vencimento_atual, t) ==
    LET data_vencimento_str ==
            IF Truthy(vencimento_atual) THEN vencimento_atual ELSE vencimento_original
        data_formatada == format_db_date(data_vencimento_str)
        data_venc == DayNum(data_formatada.s[2]) * TicksPerDay
        data_hoje == t.day * TicksPerDay + t.tick
    IN  IF ~Truthy(data_vencimento_str) THEN 0
        ELSE IF ~Truthy(data_formatada) THEN 0
        ELSE (data_hoje - data_venc) \div TicksPerDay

calculate_delay_days(vencimento_original, vencimento_atual, t) ==
    LET data_vencimento_str ==
            IF Truthy(vencimento_atual) THEN vencimento_atual ELSE vencimento_original
        data_formatada == format_db_date(data_vencimento_str)
        data_venc == DayNum(data_formatada.s[2]) * TicksPerDay
        data_hoje == t.day * TicksPerDay + t.tick
    IN  IF ~Truthy(data_vencimento_str) THEN 0
        ELSE IF ~Truthy(data_formatada) THEN 0
        ELSE IF data_hoje > data_venc THEN (data_hoje - data_venc) \div TicksPerDay
        ELSE 0

---------------------------------------------------------------------------
(* The store *)

EmptyStore == [clients |-> {}, proposals |-> {}, defaulters |-> {}, products |-> {}]

\* SQL "col = %s": never true when either side is NULL.
SqlEq(col, param) == col.ty # "none" /\ param.ty # "none" /\ col = param

\* cursor.fetchone() of a SELECT: a matching row, NoRow (None) for no row.
\* A column read back holds the value that was bound when it was written: the
\* table definitions are not part of the repository, and the model takes no
\* conversion by the column types into account.
NoRow == [id |-> 0]
FetchOne(rows) ==
    IF rows = {} THEN NoRow ELSE CHOOSE r \in rows : \A q \in rows : r.id <= q.id

\* Faulty variant: a rollback that leaves nothing of what was committed.
Rollback_committed(d, t) == EmptyStore

\* conn.rollback(): the connection's uncommitted work is discarded, all of it.
Rollback(d, t) == d

\* Faulty variant: the customer lookup by document alone, in every tenant.
get_client_id_any_tenant(t, cpf, tenant_id) ==
    LET result == FetchOne({r \in t.clients : SqlEq(r.documento, cpf)})
    IN  result.id

get_client_id(t, cpf, tenant_id) ==
    LET result == FetchOne({r \in t.clients :
                               SqlEq(r.documento, cpf) /\ r.tenant_id = tenant_id})
    IN  result.id

ClientTextCols == {"telefone", "email", "endereco", "cidade", "cep", "sexo",
                   "estado_civil", "numero_documento", "orgao_expedidor",
                   "renda_patrimonio", "profissao", "numero", "complemento",
                   "bairro", "uf"}

ClientCols == {"id", "tenant_id", "nome", "tipo_documento", "documento", "broker_id",
               "data_nascimento", "titular_cpf"} \cup ClientTextCols

\* The row of the INSERT of get_or_create_client_id: the other columns stay NULL.
StubRow(id, cpf, nome, broker_id, tenant_id) ==
    [k \in ClientCols |->
        CASE k = "id" -> id
          [] k = "tenant_id" -> tenant_id
          [] k = "nome" -> safe_str(nome)
          [] k = "tipo_documento" -> "CPF"
          [] k = "documento" -> cpf
          [] k = "broker_id" -> broker_id
          [] OTHER -> PyNone]

\* Faulty variant: the lookup alone, no customer is created.
get_client_only(st, cpf, nome, broker_id, tenant_id, raises) ==
    [tx |-> st.tx, seq |-> st.seq, id |-> get_client_id(st.tx, cpf, tenant_id)]

\* Faulty variant: the INSERT without the lookup before it.
create_client_always(st, cpf, nome, broker_id, tenant_id, raises) ==
    [tx |-> [st.tx EXCEPT !.clients =
                @ \cup {StubRow(st.seq.clients + 1, cpf, nome, broker_id, tenant_id)}],
     seq |-> [st.seq EXCEPT !.clients = @ + 1],
     id |-> st.seq.clients + 1]

\* st = [db, tx, seq]; raises = the INSERT raises. Result: [tx, seq, id].
get_or_create_client_id(st, cpf, nome, broker_id, tenant_id, raises) ==
    LET client_id == get_client_id(st.tx, cpf, tenant_id)
        new_client_id == st.seq.clients + 1
    IN  IF client_id # 0 THEN [tx |-> st.tx, seq |-> st.seq, id |-> client_id]
        ELSE IF raises
        THEN [tx |-> Rollback(st.db, st.tx), seq |-> st.seq, id |-> 0]
        ELSE [tx |-> [st.tx EXCEPT !.clients =
                         @ \cup {StubRow(new_client_id, cpf, nome, broker_id, tenant_id)}],
              seq |-> [st.seq EXCEPT !.clients = new_client_id],
              id |-> new_client_id]

---------------------------------------------------------------------------
(* Records of a batch: every key holds a Python value; PyAbsent marks a key
   the record does not have, so that dict.get's default applies. *)

PyAbsent == [ty |-> "absent", s |-> << >>]
IsDict(r) == r.isdict

\* dict.get(key, default), with the key's value already selected
Get(v, default) == IF v.ty = "absent" THEN default ELSE v

ZeroFloat == PyNum("0.0")

\* The store raises on a statement that binds a text that is no number to a
\* numeric column (psycopg2 DataError).
BadNumber(v) == v.ty = "str"

InitCnt == [inseridos |-> 0, atualizados |-> 0, existentes |-> 0, pulados |-> 0,
            cancelados |-> 0, sem_atraso |-> 0]

Bump(c, k) == [c EXCEPT ![k] = @ + 1]

\* What the loop body did with one record: out is the branch it left by, id the
\* row it wrote (0 for none), client the customer id it resolved (0 for none),
\* stub whether it created that customer.
Outcome(o, rowid, client, stub) == [out |-> o, id |-> rowid, client |-> client, stub |-> stub]

Result(t, sq, c, o) == [tx |-> t, seq |-> sq, cnt |-> c, o |-> o]

---------------------------------------------------------------------------
(* salvar_propostas_no_banco *)

ProposalFields(client_id, broker_id, prop, data_vencimento) ==
    [client_id |-> client_id, broker_id |-> broker_id,
     insurance_company_id |-> INSURANCE_COMPANY_ID,
     produto |-> safe_str(Get(prop.produto, PyNone)),
     linha_negocio |-> safe_str(Get(prop.linha_negocio, PyNone)),
     criada_em |-> format_db_date(Get(prop.criada_em, PyNone)),
     status_proposta |-> safe_str(Get(prop.status_proposta, PyNone)),
     forma_pagamento |-> safe_str(Get(prop.forma_pagamento, PyNone)),
     valor |-> Get(prop.valor, ZeroFloat),
     vencimento |-> data_vencimento,
     competencia |-> safe_str(Get(prop.competencia, PyNone)),
     status_pagamento |-> safe_str(Get(prop.status_pagamento, PyNone)),
     motivo_pendencia |-> safe_str(Get(prop.motivo_pendencia, PyNone)),
     data |-> format_db_date(Get(prop.data, PyNone))]

ProposalWritten == {"client_id", "broker_id", "insurance_company_id", "produto",
                    "linha_negocio", "criada_em", "status_proposta", "forma_pagamento",
                    "valor", "vencimento", "competencia", "status_pagamento",
                    "motivo_pendencia", "data"}

\* UPDATE ... SET <fields> WHERE id = existing_id
UpdateRow(rows, existing_id, fields, written) ==
    {IF r.id = existing_id
     THEN [k \in DOMAIN r |-> IF k \in written THEN fields[k] ELSE r[k]]
     ELSE r : r \in rows}

\* Faulty variant: the comparison without the valor column.
has_changes_proposta_sem_valor(existing_record, prop, data_vencimento) ==
    \/ existing_record.status_proposta # safe_str(Get(prop.status_proposta, PyNone))
    \/ existing_record.forma_pagamento # safe_str(Get(prop.forma_pagamento, PyNone))
    \/ existing_record.vencimento # data_vencimento
    \/ existing_record.competencia # safe_str(Get(prop.competencia, PyNone))
    \/ existing_record.status_pagamento # safe_str(Get(prop.status_pagamento, PyNone))
    \/ existing_record.motivo_pendencia # safe_str(Get(prop.motivo_pendencia, PyNone))

has_changes_proposta(existing_record, prop, data_vencimento) ==
    \/ existing_record.status_proposta # safe_str(Get(prop.status_proposta, PyNone))
    \/ existing_record.forma_pagamento # safe_str(Get(prop.forma_pagamento, PyNone))
    \/ existing_record.valor # Get(prop.valor, ZeroFloat)
    \/ existing_record.vencimento # data_vencimento
    \/ existing_record.competencia # safe_str(Get(prop.competencia, PyNone))
    \/ existing_record.status_pagamento # safe_str(Get(prop.status_pagamento, PyNone))
    \/ existing_record.motivo_pendencia # safe_str(Get(prop.motivo_pendencia, PyNone))

\* Faulty variant: the id -> document map alone, without the record's own cpf.
cpf_proposta_index_only(prop, map) ==
    LET source_client_id == Get(prop.id_cliente, PyNone)
    IN  IF Truthy(source_client_id) /\ DOMAIN map # {}
           /\ source_client_id \in DOMAIN map
        THEN map[source_client_id] ELSE PyNone

\* The document a proposal is filed under: the harvest's id -> document map
\* first, the record's own cpf otherwise.
cpf_proposta(prop, map) ==
    LET source_client_id == Get(prop.id_cliente, PyNone)
        from_map == IF Truthy(source_client_id) /\ DOMAIN map # {}
                       /\ source_client_id \in DOMAIN map
                    THEN map[source_client_id] ELSE PyNone
    IN  IF Truthy(from_map) THEN from_map ELSE clean_cpf(Get(prop.cpf, PyNone))

\* The body of the for loop for one record. st = [db, tx, seq, cnt]; fault is
\* "stub" when the store raises on the INSERT of get_or_create_client_id, and
\* "none" otherwise.
proposta_body(st, prop, broker_id, map, fault) ==
    IF ~IsDict(prop) THEN Result(st.tx, st.seq, st.cnt, Outcome("not_dict", 0, 0, FALSE))
    ELSE
    LET num_proposta == Get(prop.proposta, PyStr(<< >>))
        cpf_cliente == cpf_proposta(prop, map)
        data_vencimento == format_db_date(Get(prop.vencimento, PyNone))
        nome_cliente == safe_str(Get(prop.nome, Txt("Cliente nao informado")))
        goc == get_or_create_client_id(st, cpf_cliente, nome_cliente, broker_id,
                                       TENANT_ID, fault = "stub")
        client_id == goc.id
        stub == goc.seq # st.seq
        existing_record ==
            FetchOne({r \in goc.tx.proposals :
                         SqlEq(r.proposta, py_str(num_proposta)) /\ r.tenant_id = TENANT_ID})
        fields == ProposalFields(client_id, broker_id, prop, data_vencimento)
        raises == BadNumber(fields.valor)
        new_id == goc.seq.proposals + 1
        new_row == [k \in ProposalWritten \cup {"id", "tenant_id", "proposta"} |->
                       CASE k = "id" -> new_id
                         [] k = "tenant_id" -> TENANT_ID
                         [] k = "proposta" -> py_str(num_proposta)
                         [] OTHER -> fields[k]]
    IN  IF ~Truthy(num_proposta)
        THEN Result(st.tx, st.seq, Bump(st.cnt, "pulados"), Outcome("skipped", 0, 0, FALSE))
        ELSE IF ~Truthy(cpf_cliente)
        THEN Result(st.tx, st.seq, Bump(st.cnt, "pulados"), Outcome("skipped", 0, 0, FALSE))
        ELSE IF ~Truthy(data_vencimento)
        THEN Result(st.tx, st.seq, Bump(st.cnt, "pulados"), Outcome("skipped", 0, 0, FALSE))
        ELSE IF client_id = 0
        THEN Result(goc.tx, goc.seq, st.cnt, Outcome("no_client", 0, 0, FALSE))
        ELSE IF existing_record.id # 0
        THEN IF has_changes_proposta(existing_record, prop, data_vencimento)
             THEN IF raises
                  THEN Result(Rollback(st.db, goc.tx), goc.seq, st.cnt,
                              Outcome("error", 0, client_id, stub))
                  ELSE Result([goc.tx EXCEPT !.proposals =
                                  UpdateRow(@, existing_record.id, fields, ProposalWritten)],
                              goc.seq, Bump(st.cnt, "atualizados"),
                              Outcome("updated", existing_record.id, client_id, stub))
             ELSE Result(goc.tx, goc.seq, Bump(st.cnt, "existentes"),
                         Outcome("existing", existing_record.id, client_id, stub))
        ELSE IF raises
        THEN Result(Rollback(st.db, goc.tx), goc.seq, st.cnt,
                    Outcome("error", 0, client_id, stub))
        ELSE Result([goc.tx EXCEPT !.proposals = @ \cup {new_row}],
                    [goc.seq EXCEPT !.proposals = new_id],
                    Bump(st.cnt, "inseridos"),
                    Outcome("inserted", new_id, client_id, stub))

---------------------------------------------------------------------------
(* salvar_clientes_no_banco *)

ClientRow(id, cliente, doc_numero, broker_id) ==
    [k \in ClientCols |->
        CASE k = "id" -> id
          [] k = "tenant_id" -> TENANT_ID
          [] k = "nome" -> safe_str(Get(cliente.nome, PyNone))
          [] k = "tipo_documento" -> "CPF"
          [] k = "documento" -> doc_numero
          [] k = "broker_id" -> broker_id
          [] k = "data_nascimento" -> format_db_date(Get(cliente.data_nascimento, PyNone))
          [] k = "titular_cpf" -> Get(cliente.titular_cpf, PyNone)
          [] OTHER -> safe_str(Get(cliente[k], PyNone))]

cliente_body(st, cliente, broker_id) ==
    IF ~IsDict(cliente) THEN Result(st.tx, st.seq, st.cnt, Outcome("not_dict", 0, 0, FALSE))
    ELSE
    LET doc_numero == clean_cpf(Get(cliente.documento, PyStr(<< >>)))
        new_id == st.seq.clients + 1
    IN  IF ~Truthy(doc_numero)
        THEN Result(st.tx, st.seq, st.cnt, Outcome("uncounted", 0, 0, FALSE))
        ELSE IF ~IsStr(doc_numero)   \* len() of a number raises TypeError
        THEN Result(Rollback(st.db, st.tx), st.seq, st.cnt, Outcome("error", 0, 0, FALSE))
        ELSE IF Len(doc_numero.s) < 11
        THEN Result(st.tx, st.seq, st.cnt, Outcome("uncounted", 0, 0, FALSE))
        ELSE IF get_client_id(st.tx, doc_numero, TENANT_ID) # 0
        THEN Result(st.tx, st.seq, st.cnt,
                    Outcome("uncounted", 0, get_client_id(st.tx, doc_numero, TENANT_ID), FALSE))
        ELSE Result([st.tx EXCEPT !.clients =
                        @ \cup {ClientRow(new_id, cliente, doc_numero, broker_id)}],
                    [st.seq EXCEPT !.clients = new_id],
                    Bump(st.cnt, "inseridos"),
                    Outcome("inserted", new_id, new_id, FALSE))

---------------------------------------------------------------------------
(* salvar_inadimplentes_no_banco *)

DefaulterFields(corretora, registro, cpf_cliente, delay_days) ==
    [broker_name |-> safe_str(corretora),
     client_name |-> safe_str(Get(registro.nome_cliente, PyStr(<< >>))),
     client_cpf |-> cpf_cliente,
     business_line |-> safe_str(Get(registro.linha_negocio, PyStr(<< >>))),
     product_name |-> safe_str(Get(registro.produto, PyStr(<< >>))),
     original_due_date |-> format_db_date(Get(registro.vencimento_original, PyNone)),
     current_due_date |-> format_db_date(Get(registro.vencimento_atual, PyNone)),
     contribution_value |-> Get(registro.contribuicao, ZeroFloat),
     payment_status |-> safe_str(Get(registro.status_pagamento, PyStr(<< >>))),
     payment_method |-> safe_str(Get(registro.forma_pagamento, PyStr(<< >>))),
     delay_days |-> delay_days]

DefaulterWritten == {"broker_name", "client_name", "client_cpf", "business_line",
                     "product_name", "original_due_date", "current_due_date",
                     "contribution_value", "payment_status", "payment_method",
                     "delay_days"}

has_changes_inadimplente(existing_record, registro, delay_days) ==
    \/ existing_record.original_due_date
          # format_db_date(Get(registro.vencimento_original, PyNone))
    \/ existing_record.current_due_date
          # format_db_date(Get(registro.vencimento_atual, PyNone))
    \/ existing_record.contribution_value # Get(registro.contribuicao, ZeroFloat)
    \/ existing_record.payment_status # safe_str(Get(registro.status_pagamento, PyStr(<< >>)))
    \/ existing_record.payment_method # safe_str(Get(registro.forma_pagamento, PyStr(<< >>)))
    \/ existing_record.delay_days # delay_days

\* "if delay_days <= 0": the record is not delinquent and is dropped.
sem_atraso(delay_days) == delay_days <= 0

\* The record's own document first, the harvest's id -> document map otherwise.
cpf_inadimplente(registro, map) ==
    LET direct == clean_cpf(Get(registro.cpf_cliente, PyStr(<< >>)))
        source_client_id == Get(registro.id_cliente, PyNone)
    IN  IF Truthy(direct) THEN direct
        ELSE IF Truthy(source_client_id)
        THEN IF source_client_id \in DOMAIN map THEN map[source_client_id] ELSE PyNone
        ELSE direct

inadimplente_body(st, registro, corretora, map, t) ==
    IF ~IsDict(registro)
    THEN Result(st.tx, st.seq, Bump(st.cnt, "pulados"), Outcome("skipped", 0, 0, FALSE))
    ELSE
    LET cpf_cliente == cpf_inadimplente(registro, map)
        client_id == get_client_id(st.tx, cpf_cliente, TENANT_ID)
        delay_days == calculate_delay_days(Get(registro.vencimento_original, PyNone),
                                           Get(registro.vencimento_atual, PyNone), t)
        numero_proposta == safe_str(Get(registro.numero_proposta, PyStr(<< >>)))
        numero_certificado == safe_str(Get(registro.numero_certificado, PyStr(<< >>)))
        competencia == safe_str(Get(registro.competencia, PyStr(<< >>)))
        existing_record ==
            FetchOne({r \in st.tx.defaulters :
                         /\ r.client_id = client_id /\ r.tenant_id = TENANT_ID
                         /\ SqlEq(r.proposal_number, numero_proposta)
                         /\ SqlEq(r.certificate_number, numero_certificado)
                         /\ SqlEq(r.competency, competencia)})
        fields == DefaulterFields(corretora, registro, cpf_cliente, delay_days)
        raises == BadNumber(fields.contribution_value)
        new_id == st.seq.defaulters + 1
        new_row == [k \in DefaulterWritten \cup {"id", "tenant_id", "client_id", "competency",
                                               "proposal_number", "certificate_number"} |->
                       CASE k = "id" -> new_id
                         [] k = "tenant_id" -> TENANT_ID
                         [] k = "client_id" -> client_id
                         [] k = "competency" -> competencia
                         [] k = "proposal_number" -> numero_proposta
                         [] k = "certificate_number" -> numero_certificado
                         [] OTHER -> fields[k]]
    IN  IF ~Truthy(cpf_cliente)
        THEN Result(st.tx, st.seq, Bump(st.cnt, "pulados"), Outcome("skipped", 0, 0, FALSE))
        ELSE IF client_id = 0
        THEN Result(st.tx, st.seq, Bump(st.cnt, "pulados"),
                    Outcome("no_client", 0, 0, FALSE))
        ELSE IF sem_atraso(delay_days)
        THEN Result(st.tx, st.seq, Bump(st.cnt, "sem_atraso"),
                    Outcome("no_delay", 0, client_id, FALSE))
        ELSE IF existing_record.id # 0
        THEN IF has_changes_inadimplente(existing_record, registro, delay_days)
             THEN IF raises
                  THEN Result(Rollback(st.db, st.tx), st.seq, st.cnt,
                              Outcome("error", 0, client_id, FALSE))
                  ELSE Result([st.tx EXCEPT !.defaulters =
                                  UpdateRow(@, existing_record.id, fields, DefaulterWritten)],
                              st.seq, Bump(st.cnt, "atualizados"),
                              Outcome("updated", existing_record.id, client_id, FALSE))
             ELSE Result(st.tx, st.seq, Bump(st.cnt, "existentes"),
                         Outcome("existing", existing_record.id, client_id, FALSE))
        ELSE IF raises
        THEN Result(Rollback(st.db, st.tx), st.seq, st.cnt,
                    Outcome("error", 0, client_id, FALSE))
        ELSE Result([st.tx EXCEPT !.defaulters = @ \cup {new_row}],
                    [st.seq EXCEPT !.defaulters = new_id],
                    Bump(st.cnt, "inseridos"),
                    Outcome("inserted", new_id, client_id, FALSE))

---------------------------------------------------------------------------
(* salvar_produtos_vida_no_banco, salvar_produtos_previdencia_no_banco *)

CANCELADO == <<"C", "A", "N", "C", "E", "L", "A", "D", "O">>

\* Faulty variant: the comparison without .upper().
is_cancelado_exact(situacao_produto) == situacao_produto.s = CANCELADO

\* situacao_produto.upper() == 'CANCELADO', for a situacao_produto that is a str
is_cancelado(situacao_produto) == upper(situacao_produto.s) = CANCELADO

ProductWritten == {"broker_name", "business_line", "product_type", "product_status",
                   "coverage_name", "insured_capital", "coverage_payment_period",
                   "due_day", "last_payment", "next_payment",
                   "paid_installments_quantity", "pending_installments_quantity",
                   "payment_frequency"}

ProductCols == ProductWritten \cup {"id", "tenant_id", "client_id", "proposal_number",
                                    "certificate_number"}

params_data_vida(client_id, corretora, produto) ==
    [tenant_id |-> TENANT_ID,
     client_id |-> client_id,
     broker_name |-> safe_str(corretora),
     business_line |-> safe_str(Get(produto.linha_negocio, PyNone)),
     product_type |-> safe_str(Get(produto.tipo_produto, PyNone)),
     proposal_number |-> safe_str(Get(produto.numero_proposta, PyNone)),
     certificate_number |-> safe_str(Get(produto.numero_certificado, PyNone)),
     product_status |-> safe_str(Get(produto.situacao_produto, PyNone)),
     coverage_name |-> safe_str(Get(produto.nome_cobertura, PyNone)),
     insured_capital |-> Get(produto.capital_segurado, ZeroFloat),
     coverage_payment_period |-> safe_str(Get(produto.periodo_pagamento_cobertura, PyNone)),
     due_day |-> safe_str(Get(produto.dia_vencimento, PyNone)),
     last_payment |-> format_db_date(Get(produto.ultimo_pagamento, PyNone)),
     next_payment |-> format_db_date(Get(produto.proximo_pagamento, PyNone)),
     paid_installments_quantity |-> safe_str(Get(produto.quantidade_parcelas_pagas, PyNone)),
     pending_installments_quantity |->
         safe_str(Get(produto.quantidade_parcelas_pendentes, PyNone)),
     payment_frequency |-> safe_str(Get(produto.periodicidade_pagamentos, PyNone))]

\* float(reserva_bruta_valor or 0.0), 0.0 on ValueError or TypeError
to_float(v) == IF ~Truthy(v) THEN ZeroFloat ELSE IF v.ty = "num" THEN v ELSE ZeroFloat

params_data_previdencia(client_id, corretora, produto) ==
    [tenant_id |-> TENANT_ID,
     client_id |-> client_id,
     broker_name |-> safe_str(corretora),
     business_line |-> safe_str(Get(produto.linha_negocio, Txt("Previdencia"))),
     product_type |-> safe_str(Get(produto.tipo_produto, PyNone)),
     proposal_number |-> safe_str(Get(produto.numero_proposta, PyNone)),
     certificate_number |->
         safe_str(Get(produto.numero_certificado, Get(produto.numero_proposta, PyNone))),
     product_status |-> safe_str(Get(produto.situacao_produto, PyStr(<<"A", "t", "i", "v", "o">>))),
     coverage_name |-> safe_str(Get(produto.nome_cobertura, Txt("Plano de Previdencia"))),
     insured_capital |-> to_float(Get(produto.reserva_bruta, ZeroFloat)),
     coverage_payment_period |-> safe_str(Get(produto.periodo_pagamento_cobertura, PyNone)),
     due_day |-> safe_str(Get(produto.dia_vencimento, PyNone)),
     last_payment |-> format_db_date(Get(produto.ultima_contribuicao, PyNone)),
     next_payment |-> PyNone,
     paid_installments_quantity |-> safe_str(Get(produto.quantidade_parcelas_pagas, PyNone)),
     pending_installments_quantity |->
         safe_str(Get(produto.quantidade_parcelas_pendentes, PyNone)),
     payment_frequency |-> safe_str(Get(produto.periodicidade_pagamentos, PyNone))]

has_changes_vida(existing_record, params_data) ==
    \/ existing_record.product_status # params_data.product_status
    \/ existing_record.insured_capital # params_data.insured_capital
    \/ existing_record.last_payment # params_data.last_payment
    \/ existing_record.next_payment # params_data.next_payment
    \/ existing_record.paid_installments_quantity # params_data.paid_installments_quantity
    \/ existing_record.pending_installments_quantity
          # params_data.pending_installments_quantity

has_changes_previdencia(existing_record, params_data) ==
    \/ existing_record.product_status # params_data.product_status
    \/ existing_record.insured_capital # params_data.insured_capital
    \/ existing_record.last_payment # params_data.last_payment
    \/ existing_record.paid_installments_quantity # params_data.paid_installments_quantity
    \/ existing_record.pending_installments_quantity
          # params_data.pending_installments_quantity

\* id_cpf_map.get(produto.get('id_cliente'))
cpf_produto(produto, map) ==
    LET source_client_id == Get(produto.id_cliente, PyNone)
    IN  IF source_client_id \in DOMAIN map THEN map[source_client_id] ELSE PyNone

\* The part of both loop bodies from the customer resolution on: sql_check, the
\* comparison, the UPDATE or the INSERT. kind is "vida" or "previdencia".
produto_sync(st, produto, broker_id, corretora, map, fault, kind) ==
    LET cpf_cliente == cpf_produto(produto, map)
        goc == get_or_create_client_id(st, cpf_cliente, Txt("Cliente nao informado"),
                                       broker_id, TENANT_ID, fault = "stub")
        client_id == goc.id
        stub == goc.seq # st.seq
        params_data == IF kind = "vida"
                       THEN params_data_vida(client_id, corretora, produto)
                       ELSE params_data_previdencia(client_id, corretora, produto)
        existing_record ==
            FetchOne({r \in goc.tx.products :
                         /\ r.tenant_id = params_data.tenant_id
                         /\ r.client_id = params_data.client_id
                         /\ SqlEq(r.proposal_number, params_data.proposal_number)
                         /\ SqlEq(r.certificate_number, params_data.certificate_number)
                         /\ SqlEq(r.coverage_name, params_data.coverage_name)})
        has_changes == IF kind = "vida"
                       THEN has_changes_vida(existing_record, params_data)
                       ELSE has_changes_previdencia(existing_record, params_data)
        raises == BadNumber(params_data.insured_capital)
        new_id == goc.seq.products + 1
        new_row == [k \in ProductCols |-> IF k = "id" THEN new_id ELSE params_data[k]]
    IN  IF ~Truthy(cpf_cliente)
        THEN Result(st.tx, st.seq, Bump(st.cnt, "pulados"), Outcome("skipped", 0, 0, FALSE))
        ELSE IF client_id = 0
        THEN Result(goc.tx, goc.seq, Bump(st.cnt, "pulados"),
                    Outcome("no_client", 0, 0, FALSE))
        ELSE IF existing_record.id # 0
        THEN IF has_changes
             THEN IF raises
                  THEN Result(Rollback(st.db, goc.tx), goc.seq, st.cnt,
                              Outcome("error", 0, client_id, stub))
                  ELSE Result([goc.tx EXCEPT !.products =
                                  UpdateRow(@, existing_record.id, params_data, ProductWritten)],
                              goc.seq, Bump(st.cnt, "atualizados"),
                              Outcome("updated", existing_record.id, client_id, stub))
             ELSE Result(goc.tx, goc.seq, Bump(st.cnt, "existentes"),
                         Outcome("existing", existing_record.id, client_id, stub))
        ELSE IF raises
        THEN Result(Rollback(st.db, goc.tx), goc.seq, st.cnt,
                    Outcome("error", 0, client_id, stub))
        ELSE Result([goc.tx EXCEPT !.products = @ \cup {new_row}],
                    [goc.seq EXCEPT !.products = new_id],
                    Bump(st.cnt, "inseridos"),
                    Outcome("inserted", new_id, client_id, stub))

produto_vida_body(st, produto, broker_id, corretora, map, fault) ==
    IF ~IsDict(produto)
    THEN Result(st.tx, st.seq, Bump(st.cnt, "pulados"), Outcome("skipped", 0, 0, FALSE))
    ELSE
    LET situacao_produto == safe_str(Get(produto.situacao_produto, PyStr(<< >>)))
    IN  IF ~IsStr(situacao_produto)   \* None.upper() raises AttributeError
        THEN Result(Rollback(st.db, st.tx), st.seq, st.cnt, Outcome("error", 0, 0, FALSE))
        ELSE IF is_cancelado(situacao_produto)
        THEN Result(st.tx, st.seq, Bump(st.cnt, "cancelados"),
                    Outcome("cancelled", 0, 0, FALSE))
        ELSE produto_sync(st, produto, broker_id, corretora, map, fault, "vida")

produto_previdencia_body(st, produto, broker_id, corretora, map, fault) ==
    IF ~IsDict(produto)
    THEN Result(st.tx, st.seq, Bump(st.cnt, "pulados"), Outcome("skipped", 0, 0, FALSE))
    ELSE
    LET situacao_produto ==
            safe_str(Get(produto.situacao_produto, PyStr(<<"A", "t", "i", "v", "o">>)))
    IN  IF ~IsStr(situacao_produto)   \* None.upper() raises AttributeError
        THEN Result(Rollback(st.db, st.tx), st.seq, st.cnt, Outcome("error", 0, 0, FALSE))
        ELSE IF is_cancelado(situacao_produto)
        THEN Result(st.tx, st.seq, Bump(st.cnt, "cancelados"),
                    Outcome("cancelled", 0, 0, FALSE))
        ELSE produto_sync(st, produto, broker_id, corretora, map, fault, "previdencia")

---------------------------------------------------------------------------
(* The inputs: the store the run starts from and the record lists *)

With(r, k, v) == [r EXCEPT ![k] = v]

RawDoc1 == <<"1", "2", "3", ".", "4", "5", "6", ".", "7", "8", "9", "-", "0", "9">>
RawDoc2 == <<"9", "8", "7", "6", "5", "4", "3", "2", "1", "0", "0">>
ListedDoc1 == <<"C", "P", "F", ":", " ">> \o RawDoc1
ShortDoc == <<"C", "P", "F", ":", " ", "1", "2", "3">>
Doc1 == clean_cpf(PyStr(RawDoc1))
Doc2 == clean_cpf(PyStr(RawDoc2))

Ativo == PyStr(<<"A", "t", "i", "v", "o">>)
Cancelado == PyStr(<<"C", "a", "n", "c", "e", "l", "a", "d", "o">>)

Brokers == {[id |-> 7, nome_completo |-> <<"A", "C", "M", "E", " ", "L", "T", "D", "A">>]}
CorretoraOk == <<"A", "c", "m", "e">>
CorretoraUnknown == <<"Z", "e", "d">>

IsPrefix(p, t) == Len(p) <= Len(t) /\ SubSeq(t, 1, Len(p)) = p

\* SELECT id FROM public.brokers WHERE UPPER(nome_completo) LIKE UPPER('<nome>%')
broker_lookup(brokers, nome) ==
    LET broker_row == FetchOne({r \in brokers : IsPrefix(upper(nome), upper(r.nome_completo))})
    IN  broker_row.id

\* A customer of another tenant with the document of RawDoc1, and the same
\* customer under the synchronizer's own tenant.
ForeignClient == StubRow(1, Doc1, Txt("Outro"), 7, TENANT_ID + 1)
KnownClient == StubRow(2, Doc1, Txt("Ana"), 7, TENANT_ID)

IdCpfMap == (Txt("c1") :> Doc1) @@ (Txt("c2") :> Doc2)

Days == 0..MaxDay
Today == MaxDay - 1
NowChoices == {[day |-> Today, tick |-> k] : k \in 0..(TicksPerDay - 1)}

ClienteBase ==
    [k \in {"isdict", "id_cliente", "nome", "documento", "titular_cpf",
            "data_nascimento", "tipo_documento"} \cup ClientTextCols |->
        CASE k = "isdict" -> TRUE
          [] k = "id_cliente" -> Txt("c1")
          [] k = "nome" -> Txt("Ana")
          [] k = "documento" -> PyStr(ListedDoc1)
          [] k = "data_nascimento" -> DateText("dmy", 0)
          [] k = "email" -> Txt("ana@x")
          [] k = "numero" -> PyNum("12")
          [] OTHER -> PyNone]

ClienteRecords ==
    {ClienteBase,
     With(ClienteBase, "documento", PyStr(RawDoc2)),
     With(ClienteBase, "documento", PyStr(ShortDoc)),
     With(ClienteBase, "documento", PyNone),
     With(ClienteBase, "documento", PyNum("123"))}

PropostaBase ==
    [isdict |-> TRUE, nome |-> Txt("Ana"), cpf |-> PyStr(RawDoc1),
     produto |-> Txt("A"), linha_negocio |-> Txt("VIDA"), proposta |-> Txt("7"),
     criada_em |-> DateText("dmy", 0), status_proposta |-> Txt("Emitida"),
     data |-> DateText("dmy", 0), forma_pagamento |-> Txt("Boleto"),
     valor |-> PyNum("10.0"), vencimento |-> DateText("dmy", 1),
     competencia |-> Txt("01/2024"), status_pagamento |-> Txt("Pago"),
     motivo_pendencia |-> PyNone, id_cliente |-> PyAbsent]

PropostaRecords ==
    {With(With(PropostaBase, "proposta", n), "valor", v) :
        n \in {Txt("7"), Txt("8")}, v \in {PyNum("10.0"), PyNum("20.0")}}
    \cup {With(PropostaBase, "produto", Txt("B")),
          With(PropostaBase, "valor", Txt("abc")),
          With(PropostaBase, "cpf", PyStr(RawDoc2)),
          With(PropostaBase, "cpf", PyNone)}

InadimplenteBase ==
    [isdict |-> TRUE, cpf_cliente |-> PyStr(RawDoc1), id_cliente |-> PyAbsent,
     nome_cliente |-> Txt("Ana"), linha_negocio |-> Txt("VIDA"),
     produto |-> Txt("A"), numero_proposta |-> Txt("7"),
     numero_certificado |-> Txt("C1"), competencia |-> Txt("01/2024"),
     vencimento_original |-> DateText("ymd", 0), vencimento_atual |-> PyNone,
     contribuicao |-> PyNum("50.0"), status_pagamento |-> Txt("Pendente"),
     forma_pagamento |-> Txt("Boleto")]

InadimplenteRecords ==
    {InadimplenteBase,
     With(InadimplenteBase, "vencimento_atual", DateText("dmy", MaxDay)),
     With(InadimplenteBase, "contribuicao", PyNum("60.0")),
     With(InadimplenteBase, "contribuicao", Txt("abc")),
     With(InadimplenteBase, "numero_certificado", PyNone),
     With(InadimplenteBase, "cpf_cliente", PyStr(RawDoc2))}

VidaBase ==
    [isdict |-> TRUE, id_cliente |-> Txt("c1"), linha_negocio |-> Txt("Vida"),
     tipo_produto |-> Txt("Seguro"), numero_proposta |-> Txt("7"),
     numero_certificado |-> Txt("C1"), situacao_produto |-> Ativo,
     nome_cobertura |-> Txt("Morte"), capital_segurado |-> PyNum("100.0"),
     periodo_pagamento_cobertura |-> Txt("Vitalicio"), dia_vencimento |-> PyNum("10"),
     ultimo_pagamento |-> DateText("ymd", 0), proximo_pagamento |-> DateText("ymd", 1),
     quantidade_parcelas_pagas |-> PyNum("3"),
     quantidade_parcelas_pendentes |-> PyNum("0"),
     periodicidade_pagamentos |-> Txt("Mensal")]

VidaRecords ==
    {VidaBase,
     With(VidaBase, "situacao_produto", Cancelado),
     With(VidaBase, "situacao_produto", PyStr(<<"c", "a", "n", "c", "e", "l", "a", "d", "o">>)),
     With(VidaBase, "situacao_produto", PyNone),
     With(VidaBase, "capital_segurado", PyNum("200.0")),
     With(VidaBase, "tipo_produto", Txt("Outro")),
     With(VidaBase, "numero_certificado", PyNone),
     With(VidaBase, "id_cliente", Txt("c9"))}

PrevidenciaBase ==
    [isdict |-> TRUE, id_cliente |-> Txt("c1"), linha_negocio |-> Txt("Previdencia"),
     tipo_produto |-> Txt("PGBL"), numero_proposta |-> Txt("7"),
     numero_certificado |-> Txt("C1"), situacao_produto |-> Ativo,
     nome_cobertura |-> PyAbsent, reserva_bruta |-> PyAbsent,
     periodo_pagamento_cobertura |-> PyAbsent, dia_vencimento |-> PyNum("10"),
     ultima_contribuicao |-> PyAbsent, quantidade_parcelas_pagas |-> PyNum("3"),
     quantidade_parcelas_pendentes |-> PyNum("0"),
     periodicidade_pagamentos |-> Txt("Mensal")]

PrevidenciaRecords ==
    {PrevidenciaBase,
     With(PrevidenciaBase, "situacao_produto", Cancelado),
     With(PrevidenciaBase, "situacao_produto", PyAbsent),
     With(PrevidenciaBase, "situacao_produto", PyNone),
     With(PrevidenciaBase, "quantidade_parcelas_pagas", PyNum("4")),
     With(PrevidenciaBase, "numero_certificado", PyNone)}

\* Rows of another tenant with the natural keys of the records above: the
\* proposal number of PropostaBase, and under the other tenant's customer the
\* keys of InadimplenteBase and of VidaBase.
ForeignProposal ==
    [k \in ProposalWritten \cup {"id", "tenant_id", "proposta"} |->
        CASE k = "id" -> 1
          [] k = "tenant_id" -> TENANT_ID + 1
          [] k = "proposta" -> py_str(PropostaBase.proposta)
          [] OTHER -> ProposalFields(ForeignClient.id, 7,
                                     With(PropostaBase, "valor", PyNum("99.0")),
                                     format_db_date(PropostaBase.vencimento))[k]]

ForeignDefaulter ==
    [k \in DefaulterWritten \cup {"id", "tenant_id", "client_id", "competency",
                                  "proposal_number", "certificate_number"} |->
        CASE k = "id" -> 1
          [] k = "tenant_id" -> TENANT_ID + 1
          [] k = "client_id" -> ForeignClient.id
          [] k = "competency" -> InadimplenteBase.competencia
          [] k = "proposal_number" -> InadimplenteBase.numero_proposta
          [] k = "certificate_number" -> InadimplenteBase.numero_certificado
          [] OTHER -> DefaulterFields(PyStr(CorretoraOk),
                                      With(InadimplenteBase, "contribuicao", PyNum("99.0")),
                                      Doc1, 5)[k]]

ForeignProduct ==
    [k \in ProductCols |->
        CASE k = "id" -> 1
          [] k = "tenant_id" -> TENANT_ID + 1
          [] OTHER -> params_data_vida(ForeignClient.id, PyStr(CorretoraOk),
                                       With(VidaBase, "capital_segurado", PyNum("99.0")))[k]]

ForeignRows == [clients |-> {ForeignClient}, proposals |-> {ForeignProposal},
                defaulters |-> {ForeignDefaulter}, products |-> {ForeignProduct}]

InitStores == {ForeignRows, [ForeignRows EXCEPT !.clients = @ \cup {KnownClient}]}

\* The id sequences have passed the ids of the rows that exist
InitSeq(d) == [clients |-> Cardinality(d.clients), proposals |-> Cardinality(d.proposals),
               defaulters |-> Cardinality(d.defaulters),
               products |-> Cardinality(d.products)]

Kinds == {"clientes", "propostas", "inadimplentes", "vida", "previdencia"}

\* The batch operations that file their rows under a customer
Dependent == {"propostas", "inadimplentes", "vida", "previdencia"}

Records(kind) ==
    CASE kind = "clientes" -> ClienteRecords
      [] kind = "propostas" -> PropostaRecords
      [] kind = "inadimplentes" -> InadimplenteRecords
      [] kind = "vida" -> VidaRecords
      [] OTHER -> PrevidenciaRecords

Batches(kind) == UNION {[1..n -> Records(kind)] : n \in 0..MaxBatch}

\* Two records of one kind that differ in exactly one key
OneFieldApart(r1, r2) ==
    /\ IsDict(r1) /\ IsDict(r2)
    /\ Cardinality({k \in DOMAIN r1 : r1[k] # r2[k]}) = 1

Faults == {"none", "stub"}

---------------------------------------------------------------------------
(* The synchronizer: one batch operation at a time, each on its own connection *)

\* outcome is how the last HTTP call of the listing went, slept the seconds
\* _make_request waited before it returned from that call.
PgIdle == [endpoint |-> "none", served |-> 0, endless |-> FALSE, page_count |-> 0,
           requests |-> << >>, list |-> << >>, last |-> "none", done |-> FALSE,
           outcome |-> "none", slept |-> 0]

CONCURRENCY_LIMIT == 20

\* The calls of one IcatuAPIClient by what they fetch: a page of a listing, a
\* customer's details, a customer's products, a proposal's first installment.
CallKinds == {"page", "details", "products", "installment"}
NoCalls == [k \in CallKinds |-> 0]

\* IcatuAPIClient.__init__: asyncio.Semaphore(CONCURRENCY_LIMIT). value is the
\* semaphore's counter; todo counts the _make_request calls that have not
\* entered "async with self.semaphore" yet, flight those that are inside it.
\* failed tells that a call of the workflow has returned None for an error.
SemIdle == [workflow |-> "none", listing |-> FALSE, value |-> CONCURRENCY_LIMIT,
            todo |-> NoCalls, flight |-> NoCalls, failed |-> FALSE]

\* The loop of a workflow over the gathered results: i is the position of
\* the result the loop is at, sheets what the workflow returned.
HvIdle == [workflow |-> "none", results |-> << >>, i |-> 1, clientes_unicos |-> << >>,
           produtos_prev |-> << >>, produtos_vida |-> << >>, final_data |-> << >>,
           returned |-> FALSE, sheets |-> << >>]

\* No batch function has been called. conn is "none" until get_db_connection
\* has returned a connection; processed lists the positions of the records the
\* loop has taken up, raised those whose body raised.
BtIdle == [fn |-> "none", at |-> "idle", conn |-> "none", n |-> 0, i |-> 1,
           processed |-> << >>, raised |-> {}, commits |-> 0, rollbacks |-> 0,
           broker |-> TRUE, batch_exc |-> FALSE, propagated |-> FALSE]

FlIdle == [stage |-> "none", folder |-> "none", all_sheets_data |-> << >>,
           data |-> << >>, broker_id |-> 0, db0 |-> EmptyStore, noconn |-> FALSE,
           called |-> << >>]

Init ==
    /\ db \in InitStores
    /\ tx = db
    /\ snap = db
    /\ seq = InitSeq(db)
    /\ pc = "idle"
    /\ op = "none"
    /\ batch = << >>
    /\ idx = 1
    /\ cnt = InitCnt
    /\ log = << >>
    /\ rerun = "no"
    /\ corretora_nome = CorretoraOk
    /\ faulted = FALSE
    /\ now = CHOOSE t \in NowChoices : t.tick = 0
    /\ id_cpf_map = IdCpfMap
    /\ pg = PgIdle
    /\ sem = SemIdle
    /\ hv = HvIdle
    /\ fl = FlIdle
    /\ bt = BtIdle

broker_id == broker_lookup(Brokers, corretora_nome)

\* The start of a batch function up to its loop: the early return on an empty
\* list (not in salvar_clientes_no_banco), get_db_connection() succeeding, the
\* broker lookup of salvar_clientes_no_banco, the counters set to 0.
Begin(kind, b, nome) ==
    /\ op' = kind
    /\ batch' = b
    /\ idx' = 1
    /\ cnt' = InitCnt
    /\ log' = << >>
    /\ faulted' = FALSE
    /\ snap' = db
    /\ tx' = db
    /\ corretora_nome' = nome
    /\ pc' = IF kind # "clientes" /\ b = << >> THEN "done"
             ELSE IF kind = "clientes" /\ broker_lookup(Brokers, nome) = 0 THEN "nobroker"
             ELSE "loop"
    /\ UNCHANGED <<db, seq, id_cpf_map>>
    /\ UNCHANGED harvestVars

\* main() hands a record list to its batch function; the dependent ones run
\* only with a broker id.
Start ==
    /\ pc = "idle"
    /\ \E kind \in Kinds : \E b \in Batches(kind) :
       \E nome \in IF kind = "clientes" THEN {CorretoraOk, CorretoraUnknown} ELSE {CorretoraOk} :
          /\ Begin(kind, b, nome)
          /\ rerun' = "no"
          /\ UNCHANGED <<now, fl>>

\* get_db_connection() returns None: the function returns at once.
ConnectFail ==
    /\ pc = "idle"
    /\ \E kind \in Kinds : \E b \in Batches(kind) :
          /\ kind = "clientes" \/ b # << >>
          /\ op' = kind /\ batch' = b /\ pc' = "noconn"
    /\ UNCHANGED <<db, tx, seq, idx, cnt, log, snap, rerun, corretora_nome, faulted, now,
                   id_cpf_map, fl>>
    /\ UNCHANGED harvestVars

\* The same file is synchronized a second time.
RerunSame ==
    /\ pc = "done" /\ rerun = "no"
    /\ Begin(op, batch, corretora_nome)
    /\ rerun' = "same"
    /\ UNCHANGED <<now, fl>>

\* A later harvest of the same records, one of them changed in one field.
RerunChanged ==
    /\ pc = "done" /\ rerun = "no"
    /\ \E k \in 1..Len(batch) : \E r \in Records(op) :
          /\ OneFieldApart(batch[k], r)
          /\ Begin(op, [batch EXCEPT ![k] = r], corretora_nome)
    /\ rerun' = "changed"
    /\ UNCHANGED <<now, fl>>

InLoop(kind) == pc = "loop" /\ op = kind /\ idx <= Len(batch)

st == [db |-> db, tx |-> tx, seq |-> seq, cnt |-> cnt]

\* One pass of the for loop: the body's result becomes the state.
Apply(res, fault) ==
    /\ tx' = res.tx
    /\ seq' = res.seq
    /\ cnt' = res.cnt
    /\ log' = Append(log, res.o)
    /\ idx' = idx + 1
    /\ faulted' = (faulted \/ fault # "none")
    /\ UNCHANGED <<db, pc, op, batch, snap, rerun, corretora_nome, now, id_cpf_map, fl>>
    /\ UNCHANGED harvestVars

\* The store raises on a stub INSERT at most once per run.
FaultChoice(fault, res, plain) ==
    fault = "none" \/ (~faulted /\ res # plain)

StepCliente ==
    /\ InLoop("clientes")
    /\ Apply(cliente_body(st, batch[idx], broker_id), "none")

StepProposta ==
    /\ InLoop("propostas")
    /\ \E fault \in Faults :
          LET res == proposta_body(st, batch[idx], broker_id, id_cpf_map, fault)
          IN  /\ FaultChoice(fault, res,
                             proposta_body(st, batch[idx], broker_id, id_cpf_map, "none"))
              /\ Apply(res, fault)

StepInadimplente ==
    /\ InLoop("inadimplentes")
    /\ Apply(inadimplente_body(st, batch[idx], PyStr(corretora_nome), id_cpf_map, now),
             "none")

StepVida ==
    /\ InLoop("vida")
    /\ \E fault \in Faults :
          LET res == produto_vida_body(st, batch[idx], broker_id, PyStr(corretora_nome),
                                       id_cpf_map, fault)
          IN  /\ FaultChoice(fault, res,
                             produto_vida_body(st, batch[idx], broker_id,
                                               PyStr(corretora_nome), id_cpf_map, "none"))
              /\ Apply(res, fault)

StepPrevidencia ==
    /\ InLoop("previdencia")
    /\ \E fault \in Faults :
          LET res == produto_previdencia_body(st, batch[idx], broker_id,
                                              PyStr(corretora_nome), id_cpf_map, fault)
          IN  /\ FaultChoice(fault, res,
                             produto_previdencia_body(st, batch[idx], broker_id,
                                                      PyStr(corretora_nome), id_cpf_map,
                                                      "none"))
              /\ Apply(res, fault)

\* After the loop: conn.commit(), the summary line, conn.close().
Commit ==
    /\ pc = "loop" /\ idx > Len(batch)
    /\ db' = tx
    /\ pc' = "done"
    /\ UNCHANGED <<tx, seq, op, batch, idx, cnt, log, snap, rerun, corretora_nome, faulted,
                   now, id_cpf_map, fl>>
    /\ UNCHANGED harvestVars

Next ==
    \/ Start
    \/ ConnectFail
    \/ RerunSame
    \/ RerunChanged
    \/ StepCliente
    \/ StepProposta
    \/ StepInadimplente
    \/ StepVida
    \/ StepPrevidencia
    \/ Commit

Spec == Init /\ [][Next]_vars

---------------------------------------------------------------------------
(* sincronizar_banco.py, the frame of the five batch functions: the connection,
   the for loop with its try/except, the commit, the outer except and the
   finally. What the body of the loop does with a record is left out here. *)

MaxRecords == 3

\* Faulty variant: the handler of a record's exception leaves the loop.
next_record_none(i, n) == n + 1

\* The for loop after the except block of a record: the next record
next_record(i, n) == i + 1

\* The function is called with n records: the early return of the dependent
\* functions on an empty list, get_db_connection(), and for the customers the
\* broker lookup with its "return None".
BatchCall ==
    /\ pc = "idle" /\ bt.at = "idle"
    /\ \E fn \in Kinds : \E n \in 0..MaxRecords : \E conn \in BOOLEAN : \E broker \in BOOLEAN :
          /\ fn # "clientes" => broker
          /\ (fn # "clientes" /\ n = 0) => conn
          /\ bt' = IF fn # "clientes" /\ n = 0
                   THEN [BtIdle EXCEPT !.fn = fn, !.at = "returned"]
                   ELSE IF ~conn
                   THEN [BtIdle EXCEPT !.fn = fn, !.n = n, !.at = "returned"]
                   ELSE [BtIdle EXCEPT !.fn = fn, !.n = n, !.conn = "open",
                                       !.broker = broker,
                                       !.at = IF broker THEN "loop" ELSE "finally"]
    /\ UNCHANGED dataVars

\* The body of the loop for record i: it goes through, or it raises and the
\* record's except block is entered.
BatchRecord ==
    /\ bt.at = "loop" /\ bt.i <= bt.n
    /\ \E raises \in BOOLEAN :
          bt' = IF raises
                THEN [bt EXCEPT !.processed = Append(@, bt.i), !.raised = @ \cup {bt.i},
                                !.at = "except"]
                ELSE [bt EXCEPT !.processed = Append(@, bt.i), !.i = @ + 1]
    /\ UNCHANGED dataVars

\* "except Exception as e: logging.error(...); conn.rollback()": the rollback
\* is made and the loop goes on, or the connection is gone and the rollback
\* raises into the outer except block.
BatchExcept ==
    /\ bt.at = "except"
    /\ \E lost \in BOOLEAN :
          bt' = IF lost
                THEN [bt EXCEPT !.at = "outer", !.batch_exc = TRUE]
                ELSE [bt EXCEPT !.rollbacks = @ + 1, !.at = "loop",
                                !.i = next_record(bt.i, bt.n)]
    /\ UNCHANGED dataVars

\* conn.commit() after the loop, the summary line and the return
BatchCommit ==
    /\ bt.at = "loop" /\ bt.i > bt.n
    /\ \E lost \in BOOLEAN :
          bt' = IF lost
                THEN [bt EXCEPT !.at = "outer", !.batch_exc = TRUE]
                ELSE [bt EXCEPT !.commits = @ + 1, !.at = "finally"]
    /\ UNCHANGED dataVars

\* The outer "except Exception": "if conn: conn.rollback()", which raises out
\* of the function when the connection is gone.
BatchOuter ==
    /\ bt.at = "outer"
    /\ \E lost \in BOOLEAN : bt' = [bt EXCEPT !.at = "finally", !.propagated = lost]
    /\ UNCHANGED dataVars

\* "finally: if conn: conn.close()"
BatchFinally ==
    /\ bt.at = "finally"
    /\ bt' = [bt EXCEPT !.conn = "closed", !.at = "returned"]
    /\ UNCHANGED dataVars

NextBatch ==
    \/ BatchCall
    \/ BatchRecord
    \/ BatchExcept
    \/ BatchCommit
    \/ BatchOuter
    \/ BatchFinally

SpecBatch == Init /\ [][NextBatch]_vars

\* Every statement of the function returns or raises: the store answers, or the
\* driver raises on a lost connection.
FairBatch ==
    /\ SpecBatch
    /\ WF_vars(BatchRecord) /\ WF_vars(BatchExcept) /\ WF_vars(BatchCommit)
    /\ WF_vars(BatchOuter) /\ WF_vars(BatchFinally)

---------------------------------------------------------------------------
(* sincronizar_banco.py, main(): one *_backup.json file of the download folder,
   from json.load to os.rename *)

\* Faulty variant: the section name compared as it is written.
identificar_tipo_dados_cased(elemento) ==
    IF elemento.isdict /\ elemento.name.ty # "absent"
    THEN IF ~IsStr(elemento.name) THEN "raise"
         ELSE LET nome_secao == elemento.name.s
              IN  IF Contains(<<"c", "l", "i", "e", "n", "t", "e", "s">>, nome_secao)
                  THEN "clientes"
                  ELSE IF Contains(<<"p", "r", "o", "p", "o", "s", "t", "a", "s">>, nome_secao)
                          \/ Contains(<<"s", "t", "a", "t", "u", "s">>, nome_secao) THEN "propostas"
                  ELSE IF Contains(<<"p", "e", "n", "d", "e", "n", "t", "e", "s">>, nome_secao)
                          \/ Contains(<<"i", "n", "a", "d", "i", "m", "p", "l", "e", "n", "t",
                                  "e", "s">>, nome_secao) THEN "inadimplentes"
                  ELSE IF Contains(<<"p", "r", "o", "d", "u", "t", "o", "s">>, nome_secao)
                          /\ Contains(<<"v", "i", "d", "a">>, nome_secao) THEN "produtos_vida"
                  ELSE IF Contains(<<"p", "r", "o", "d", "u", "t", "o", "s">>, nome_secao)
                          /\ Contains(<<"p", "r", "e", "v", "i", "d", "e", "n", "c", "i",
                                  "a">>, nome_secao) THEN "produtos_previdencia"
                  ELSE "desconhecido"
    ELSE "desconhecido"

\* An elemento is [isdict, name, data]; name is PyAbsent for a dict without the
\* key. "raise" stands for the AttributeError of .lower() on a name that is no
\* text.
identificar_tipo_dados(elemento) ==
    IF elemento.isdict /\ elemento.name.ty # "absent"
    THEN IF ~IsStr(elemento.name) THEN "raise"
         ELSE LET nome_secao == lower(elemento.name.s)
              IN  IF Contains(<<"c", "l", "i", "e", "n", "t", "e", "s">>, nome_secao)
                  THEN "clientes"
                  ELSE IF Contains(<<"p", "r", "o", "p", "o", "s", "t", "a", "s">>, nome_secao)
                          \/ Contains(<<"s", "t", "a", "t", "u", "s">>, nome_secao) THEN "propostas"
                  ELSE IF Contains(<<"p", "e", "n", "d", "e", "n", "t", "e", "s">>, nome_secao)
                          \/ Contains(<<"i", "n", "a", "d", "i", "m", "p", "l", "e", "n", "t",
                                  "e", "s">>, nome_secao) THEN "inadimplentes"
                  ELSE IF Contains(<<"p", "r", "o", "d", "u", "t", "o", "s">>, nome_secao)
                          /\ Contains(<<"v", "i", "d", "a">>, nome_secao) THEN "produtos_vida"
                  ELSE IF Contains(<<"p", "r", "o", "d", "u", "t", "o", "s">>, nome_secao)
                          /\ Contains(<<"p", "r", "e", "v", "i", "d", "e", "n", "c", "i",
                                  "a">>, nome_secao) THEN "produtos_previdencia"
                  ELSE "desconhecido"
    ELSE "desconhecido"

\* extrair_dados: the list under 'data'
extrair_dados(elemento) == IF elemento.isdict THEN elemento.data ELSE << >>

tipo_dados(kind) ==
    CASE kind = "vida" -> "produtos_vida"
      [] kind = "previdencia" -> "produtos_previdencia"
      [] OTHER -> kind

\* The loop over the elements of the file: what clientes_data, propostas_data,
\* ... hold after it, the last element of a type winning. << >> stands for
\* None as for an empty list: main tests them for truth only.
section(all_sheets_data, kind) ==
    LET found == {k \in 1..Len(all_sheets_data) :
                     identificar_tipo_dados(all_sheets_data[k]) = tipo_dados(kind)}
    IN  IF found = {} THEN << >>
        ELSE extrair_dados(all_sheets_data[CHOOSE k \in found : \A j \in found : j <= k])

\* The loop that fills id_cpf_map, a later record of an id replacing an
\* earlier one.
build_id_cpf_map(clientes_data) ==
    LET both == {k \in 1..Len(clientes_data) :
                    /\ Truthy(Get(clientes_data[k].id_cliente, PyNone))
                    /\ Truthy(Get(clientes_data[k].documento, PyNone))}
        ids == {clientes_data[k].id_cliente : k \in both}
        last(id) == CHOOSE k \in both :
                       /\ clientes_data[k].id_cliente = id
                       /\ \A j \in both : clientes_data[j].id_cliente = id => j <= k
    IN  [id \in ids |-> clean_cpf(clientes_data[last(id)].documento)]

\* What raises inside the try block of main before any batch function is
\* called: .lower() of a section name that is no text, .get of a customer
\* record that is no dict.
main_raises(all_sheets_data) ==
    \/ \E k \in 1..Len(all_sheets_data) : identificar_tipo_dados(all_sheets_data[k]) = "raise"
    \/ \E k \in 1..Len(section(all_sheets_data, "clientes")) :
          ~IsDict(section(all_sheets_data, "clientes")[k])

Elemento(name, data) == [isdict |-> TRUE, name |-> PyStr(name), data |-> data]

\* The section names the harvester writes
NomeClientes == <<"C", "l", "i", "e", "n", "t", "e", "s">>
NomePrevidencia == <<"P", "r", "o", "d", "u", "t", "o", "s", " ", "P", "r", "e", "v", "i", "d",
        "e", "n", "c", "i", "a">>
NomeVida == <<"P", "r", "o", "d", "u", "t", "o", "s", " ", "V", "i", "d", "a">>
NomePendentes == <<"P", "a", "g", "a", "m", "e", "n", "t", "o", "s", " ", "P", "e", "n", "d",
        "e", "n", "t", "e", "s">>
NomePropostas == <<"S", "t", "a", "t", "u", "s", " ", "P", "r", "o", "p", "o", "s", "t", "a", "s">>

NotADict == [isdict |-> FALSE]

\* A customer the harvest lists without a document, and one without an id
ClienteSemDocumento ==
    With(With(ClienteBase, "id_cliente", Txt("c3")), "documento", PyNone)
ClienteSemId ==
    With(With(ClienteBase, "id_cliente", PyNone), "documento", PyStr(RawDoc2))

\* Records that name their customer by the harvest's id
PropostaPorId(id, cpf, n) ==
    With(With(With(PropostaBase, "id_cliente", id), "cpf", cpf), "proposta", n)
InadimplentePorId(id, cpf, n) ==
    With(With(With(InadimplenteBase, "id_cliente", id), "cpf_cliente", cpf),
         "numero_proposta", n)

HarvestSheets ==
    <<Elemento(NomeClientes, <<ClienteBase>>),
      Elemento(NomePrevidencia, <<PrevidenciaBase>>),
      Elemento(NomeVida, <<VidaBase>>),
      Elemento(NomePendentes, <<InadimplenteBase>>),
      Elemento(NomePropostas, <<PropostaBase>>)>>

IndexSheets ==
    <<Elemento(NomeClientes, <<ClienteBase, ClienteSemDocumento, ClienteSemId>>),
      Elemento(NomePendentes,
               <<InadimplentePorId(Txt("c1"), PyStr(<< >>), Txt("7")),
                 InadimplentePorId(Txt("c9"), PyStr(RawDoc1), Txt("8")),
                 InadimplentePorId(Txt("c3"), PyNone, Txt("9"))>>),
      Elemento(NomePropostas,
               <<PropostaPorId(Txt("c1"), PyNone, Txt("7")),
                 PropostaPorId(Txt("c9"), PyStr(RawDoc2), Txt("8")),
                 PropostaPorId(Txt("c9"), PyNone, Txt("9"))>>)>>

SheetChoices ==
    {HarvestSheets,
     IndexSheets,
     SubSeq(HarvestSheets, 2, 5),
     SubSeq(IndexSheets, 2, 3),
     <<Elemento(NomeClientes, <<ClienteBase, NotADict>>),
       Elemento(NomePropostas, <<PropostaBase>>)>>,
     <<[isdict |-> TRUE, name |-> PyNone, data |-> <<PropostaBase>>]>>,
     <<Elemento(NomeClientes, <<ClienteBase>>),
       Elemento(NomePropostas, <<With(PropostaBase, "cpf", PyStr(RawDoc2)),
                                 With(PropostaBase, "valor", Txt("abc"))>>)>>}

Files == [corretora : {CorretoraOk, CorretoraUnknown}, all_sheets_data : SheetChoices]

\* Where a batch function can be when main goes on: not called, returned
\* after its loop, returned for want of a broker or of a connection
Returned == {"idle", "done", "nobroker", "noconn"}

\* json.load, the loop over the elements and the id_cpf_map loop. An exception
\* in them is caught at the end of main's try block: the file is not renamed.
OpenFile(files) ==
    /\ pc = "idle" /\ fl.stage = "none"
    /\ \E f \in files :
          LET raises == main_raises(f.all_sheets_data)
          IN  /\ fl' = [stage |-> IF raises THEN "failed" ELSE "clientes",
                        folder |-> "downloads",
                        all_sheets_data |-> f.all_sheets_data,
                        data |-> IF raises THEN << >>
                                 ELSE [k \in Kinds |-> section(f.all_sheets_data, k)],
                        broker_id |-> 0, db0 |-> db, noconn |-> FALSE, called |-> << >>]
              /\ corretora_nome' = f.corretora
              /\ id_cpf_map' = IF raises THEN id_cpf_map
                               ELSE build_id_cpf_map(section(f.all_sheets_data, "clientes"))
    /\ UNCHANGED <<db, tx, seq, pc, op, batch, idx, cnt, log, snap, rerun, faulted, now>>
    /\ UNCHANGED harvestVars

OpenDownloaded == OpenFile(Files)

\* main calls a batch function: get_db_connection() gives a connection and the
\* function goes into its loop, or gives None and the function returns.
Call(kind, conn) ==
    /\ IF conn
       THEN Begin(kind, fl.data[kind], corretora_nome)
       ELSE /\ op' = kind /\ batch' = fl.data[kind] /\ pc' = "noconn"
            /\ UNCHANGED <<db, tx, seq, idx, cnt, log, snap, corretora_nome, faulted,
                           id_cpf_map>>
            /\ UNCHANGED harvestVars
    /\ UNCHANGED <<rerun, now>>

\* main goes past a batch function without calling it
NoCall ==
    /\ pc' = "idle"
    /\ UNCHANGED <<db, tx, seq, op, batch, idx, cnt, log, snap, rerun, corretora_nome,
                   faulted, now, id_cpf_map>>
    /\ UNCHANGED harvestVars

\* "if clientes_data: broker_id = salvar_clientes_no_banco(...)"
MainClientes ==
    /\ fl.stage = "clientes" /\ pc = "idle"
    /\ IF fl.data.clientes # << >>
       THEN \E conn \in BOOLEAN :
               /\ Call("clientes", conn)
               /\ fl' = [fl EXCEPT !.stage = "broker", !.noconn = ~conn,
                                   !.called = Append(@, "clientes")]
       ELSE /\ NoCall
            /\ fl' = [fl EXCEPT !.stage = "broker"]

NOME_DESCONHECIDO == <<"N", "O", "M", "E", "_", "D", "E", "S", "C", "O", "N", "H", "E", "C",
        "I", "D", "O">>

\* What salvar_clientes_no_banco returned, and the second lookup by name when
\* that is None.
MainBroker ==
    /\ fl.stage = "broker" /\ pc \in Returned
    /\ LET returned == IF op = "clientes" /\ pc = "done"
                       THEN broker_lookup(Brokers, corretora_nome) ELSE 0
       IN  IF returned = 0 /\ corretora_nome # NOME_DESCONHECIDO
           THEN \E conn_temp \in BOOLEAN :
                   fl' = [fl EXCEPT !.stage = "propostas",
                                    !.noconn = @ \/ ~conn_temp,
                                    !.broker_id = IF conn_temp
                                                  THEN broker_lookup(Brokers, corretora_nome)
                                                  ELSE 0]
           ELSE fl' = [fl EXCEPT !.stage = "propostas", !.broker_id = returned]
    /\ NoCall

NextStage(stage) ==
    CASE stage = "propostas" -> "inadimplentes"
      [] stage = "inadimplentes" -> "vida"
      [] stage = "vida" -> "previdencia"
      [] OTHER -> "move"

\* Faulty variant: the dependent batch functions run without a broker id.
run_dependents_always(id) == TRUE

\* "if broker_id:"
run_dependents(id) == id # 0

\* The four calls under "if broker_id:", each under "if <its list>:"
MainDependent ==
    /\ fl.stage \in Dependent /\ pc \in Returned
    /\ IF run_dependents(fl.broker_id) /\ fl.data[fl.stage] # << >>
       THEN \E conn \in BOOLEAN :
               /\ Call(fl.stage, conn)
               /\ fl' = [fl EXCEPT !.stage = NextStage(@), !.noconn = @ \/ ~conn,
                                   !.called = Append(@, fl.stage)]
       ELSE /\ NoCall
            /\ fl' = [fl EXCEPT !.stage = NextStage(@)]

\* os.rename(caminho_arquivo, os.path.join(PASTA_PROCESSADOS, filename))
MainMove ==
    /\ fl.stage = "move" /\ pc \in Returned
    /\ fl' = [fl EXCEPT !.stage = "end", !.folder = "processados"]
    /\ NoCall

NextMain ==
    \/ OpenDownloaded
    \/ MainClientes
    \/ MainBroker
    \/ MainDependent
    \/ MainMove
    \/ StepCliente
    \/ StepProposta
    \/ StepInadimplente
    \/ StepVida
    \/ StepPrevidencia
    \/ Commit

SpecMain == Init /\ [][NextMain]_vars

---------------------------------------------------------------------------
(* The routing of the sections of a file by their names *)

MaxSections == 2

RouteNames ==
    {PyStr(NomeClientes), PyStr(NomePrevidencia), PyStr(NomeVida), PyStr(NomePendentes),
     PyStr(NomePropostas),
         PyStr(<<"c", "l", "i", "e", "n", "t", "e", "s", " ", "p", "r", "o", "p", "o", "s", "t",
                 "a", "s">>), PyStr(<<"S", "T", "A", "T", "U", "S">>),
     PyStr(<<"I", "n", "a", "d", "i", "m", "p", "l", "e", "n", "t", "e", "s">>),
         PyStr(<<"P", "r", "o", "d", "u", "t", "o", "s">>), PyStr(<<"V", "i", "d", "a">>),
     PyStr(<<"P", "e", "n", "d", "e", "n", "t", "e", "s", " ", "P", "r", "o", "d", "u", "t",
             "o", "s", " ", "V", "i", "d", "a">>),
                 PyStr(<<"P", "r", "o", "d", "u", "t", "o", "s", " ", "V", "i", "d", "a", " ",
                         "P", "r", "e", "v", "i", "d", "e", "n", "c", "i", "a">>),
     PyStr(<<"R", "e", "s", "u", "m", "o">>), PyStr(<< >>), PyAbsent}

\* The list under 'data' of the k-th section of a file: one record, marked k
RouteData(k) ==
    <<[isdict |-> TRUE, id_cliente |-> PyNone, documento |-> PyNone, linha |-> k]>>

RouteFiles ==
    UNION {{[corretora |-> CorretoraOk,
             all_sheets_data |-> [k \in 1..n |->
                                    [isdict |-> TRUE, name |-> names[k],
                                     data |-> RouteData(k)]]] :
               names \in [1..n -> RouteNames]} : n \in 1..MaxSections}

OpenRouted == OpenFile(RouteFiles)

NextRoute == OpenRouted

SpecRoute == Init /\ [][NextRoute]_vars

---------------------------------------------------------------------------
(* Pending payments under a moving clock: one record per file, every kind of
   due date, any time of any day *)

AllNow == {[day |-> d, tick |-> k] : d \in Days, k \in 0..(TicksPerDay - 1)}

DateInputs ==
    {DateText("ymd", d) : d \in Days}
    \cup {DateText("dmy", 1), DateText("iso", 1), PyNone, PyStr(<< >>), PyNum("20240101")}

DelayRecords ==
    {With(InadimplenteBase, "vencimento_original", v) : v \in DateInputs}
    \cup {With(With(InadimplenteBase, "vencimento_original", DateText("ymd", 1)),
                "vencimento_atual", v) : v \in DateInputs}

StartDelay ==
    /\ pc = "idle"
    /\ \E r \in DelayRecords : \E t \in AllNow :
          /\ Begin("inadimplentes", <<r>>, CorretoraOk)
          /\ now' = t
          /\ rerun' = "no"
          /\ UNCHANGED fl

\* The same file is synchronized again, at the same time or later.
RerunLater ==
    /\ pc = "done" /\ rerun = "no"
    /\ \E t \in AllNow :
          /\ t.day * TicksPerDay + t.tick >= now.day * TicksPerDay + now.tick
          /\ Begin(op, batch, corretora_nome)
          /\ now' = t
          /\ rerun' = "later"
          /\ UNCHANGED fl

NextDelay ==
    \/ StartDelay
    \/ RerunLater
    \/ StepInadimplente
    \/ Commit

SpecDelay == Init /\ [][NextDelay]_vars

---------------------------------------------------------------------------
(* extrator_icatu.py: the paginated listing loops of IcatuAPIClient *)

MaxPages == 3
MaxRequests == 1002

PAGE_LIMIT == 1000

Endpoints == {"customers", "pending", "proposals"}

\* Faulty variant: every listing starts at page 1.
first_page_one(endpoint) == 1

\* page_count as initialised before the loop
first_page(endpoint) == IF endpoint = "pending" THEN 0 ELSE 1

\* Faulty variant: no cap on the pending-payment loop.
loop_guard_uncapped(endpoint, page_count) == TRUE

\* The while condition: "while True" for customers and proposals, "while
\* page_count < 1000" for pending payments.
loop_guard(endpoint, page_count) == endpoint # "pending" \/ page_count < PAGE_LIMIT

\* The endpoint: pg.served non-empty pages and empty ones after them, or
\* non-empty pages without end. What _make_request returns for a page number is
\* "page" (a non-empty list), "empty" (an empty or missing list) or "failed"
\* (None: an HTTP error status, a transport error, or a body that is no JSON).
serve(p, page) ==
    IF p.endless \/ page - first_page(p.endpoint) < p.served THEN "page" ELSE "empty"

\* How an HTTP call can go: a 2xx response with a JSON body or with an empty
\* one, a response with an error status (401 among them), a transport error,
\* a timeout, a body that is no JSON.
HttpOutcomes == {"json", "no_body", "status", "unauthorized", "transport", "timeout",
                 "decode"}

ERROR_DELAY == 2

\* Faulty variant: only transport errors and timeouts are caught.
make_request_narrow(outcome, body) ==
    CASE outcome = "json" -> [value |-> body, slept |-> 0, raised |-> FALSE]
      [] outcome \in {"no_body", "status", "unauthorized"} ->
            [value |-> "failed", slept |-> 0, raised |-> FALSE]
      [] outcome = "decode" -> [value |-> "failed", slept |-> 0, raised |-> TRUE]
      [] OTHER -> [value |-> "failed", slept |-> ERROR_DELAY, raised |-> FALSE]

\* _make_request: one request. body is what the JSON of a 2xx response holds
\* for the caller; "failed" stands for None.
make_request(outcome, body) ==
    CASE outcome = "json" -> [value |-> body, slept |-> 0, raised |-> FALSE]
      [] outcome \in {"no_body", "status", "unauthorized"} ->
            [value |-> "failed", slept |-> 0, raised |-> FALSE]
      [] OTHER -> [value |-> "failed", slept |-> ERROR_DELAY, raised |-> FALSE]

ServedChoices(endpoint) ==
    (0..MaxPages) \cup (IF endpoint = "pending" THEN {PAGE_LIMIT, PAGE_LIMIT + 1} ELSE {})

StartListing ==
    /\ pc = "idle" /\ pg = PgIdle
    /\ \E endpoint \in Endpoints : \E endless \in BOOLEAN :
       \E served \in IF endless THEN {0} ELSE ServedChoices(endpoint) :
          pg' = [endpoint |-> endpoint, served |-> served, endless |-> endless,
                 page_count |-> first_page(endpoint), requests |-> << >>,
                 list |-> << >>, last |-> "none", done |-> FALSE,
                 outcome |-> "none", slept |-> 0]
    /\ UNCHANGED syncVars
    /\ UNCHANGED <<sem, hv>>

\* One pass of the loop: the request for page_count, then either "break" or
\* the page appended to the list and page_count += 1.
PageRequest ==
    /\ pg.endpoint # "none" /\ ~pg.done
    /\ loop_guard(pg.endpoint, pg.page_count)
    /\ Len(pg.requests) < MaxRequests
    /\ \E outcome \in HttpOutcomes :
          LET call == make_request(outcome, serve(pg, pg.page_count))
              response_data == IF call.raised THEN "raised" ELSE call.value
          IN  pg' = IF response_data = "page"
                    THEN [pg EXCEPT !.requests = Append(@, pg.page_count),
                                    !.list = Append(@, pg.page_count),
                                    !.page_count = @ + 1,
                                    !.last = response_data,
                                    !.outcome = outcome, !.slept = call.slept]
                    ELSE [pg EXCEPT !.requests = Append(@, pg.page_count),
                                    !.last = response_data,
                                    !.done = TRUE,
                                    !.outcome = outcome, !.slept = call.slept]
    /\ UNCHANGED syncVars
    /\ UNCHANGED <<sem, hv>>

\* The while condition is false: the loop is left without a request.
LoopExit ==
    /\ pg.endpoint # "none" /\ ~pg.done
    /\ ~loop_guard(pg.endpoint, pg.page_count)
    /\ pg' = [pg EXCEPT !.done = TRUE]
    /\ UNCHANGED syncVars
    /\ UNCHANGED <<sem, hv>>

NextPages ==
    \/ StartListing
    \/ PageRequest
    \/ LoopExit

SpecPages == Init /\ [][NextPages]_vars

\* Every request returns (httpx.AsyncClient(timeout=45) answers or raises, and
\* _make_request turns what it raises into None), so the loop keeps stepping.
FairPages == SpecPages /\ WF_vars(PageRequest) /\ WF_vars(LoopExit)

---------------------------------------------------------------------------
(* extrator_icatu.py: every call of a workflow goes through _make_request and
   its semaphore. The calls of one kind are interchangeable, so they are
   counted, not named. *)

MaxCustomers == 11
MaxProposals == 21

Workflows == {"customers", "pending", "proposals"}

\* Faulty variant: a semaphore that never makes a caller wait.
acquire_unbounded(value) == TRUE

\* asyncio.Semaphore.acquire() returns at once while the counter is positive
\* and suspends the caller otherwise.
acquire_ok(value) == value > 0

\* The tasks asyncio.gather starts once the listing is over: two calls per
\* listed customer, one per listed proposal, none for pending payments.
fan_out(workflow, n) ==
    CASE workflow = "customers" -> [NoCalls EXCEPT !.details = n, !.products = n]
      [] workflow = "proposals" -> [NoCalls EXCEPT !.installment = n]
      [] OTHER -> NoCalls

Listed(workflow) ==
    CASE workflow = "customers" -> 0..MaxCustomers
      [] workflow = "proposals" -> 0..MaxProposals
      [] OTHER -> {0}

\* get_customers, get_pending_payments or get_proposal_status is called: the
\* listing loop is about to request its first page.
BeginWorkflow ==
    /\ pc = "idle" /\ sem.workflow = "none"
    /\ \E w \in Workflows :
          sem' = [sem EXCEPT !.workflow = w, !.listing = TRUE, !.todo.page = 1]
    /\ UNCHANGED <<syncVars, pg, hv>>

\* A call enters "async with self.semaphore" and sends its request.
Acquire ==
    /\ sem.workflow # "none"
    /\ acquire_ok(sem.value)
    /\ \E k \in CallKinds :
          /\ sem.todo[k] > 0
          /\ sem' = [sem EXCEPT !.value = @ - 1, !.todo[k] = @ - 1, !.flight[k] = @ + 1]
    /\ UNCHANGED <<syncVars, pg, hv>>

\* How a detail call can end: with a result, with an error status, with
\* another error and its sleep
CallOutcomes == {"json", "status", "transport"}

\* The outcomes _make_request logs as an error
Failing(outcome) == outcome \notin {"json", "no_body"}

\* Faulty variant: the permit is given back by the return of the try block only.
release_on_success(value, outcome) == IF Failing(outcome) THEN value ELSE value + 1

\* Leaving "async with self.semaphore", by whichever return statement of
\* _make_request: Semaphore.release() adds one to the counter.
release(value, outcome) == value + 1

\* A detail call returns, with a result or with None (for an error status at
\* once, for another error after its sleep), and leaves the "async with" block.
Release ==
    /\ \E k \in CallKinds \ {"page"} : \E outcome \in CallOutcomes :
          /\ sem.flight[k] > 0
          /\ sem' = [sem EXCEPT !.value = release(@, outcome), !.flight[k] = @ - 1,
                                !.failed = @ \/ Failing(outcome)]
    /\ UNCHANGED <<syncVars, pg, hv>>

\* The page request returns: a non-empty page, and the loop asks for the next
\* one, or the end of the listing, and the detail calls of the n listed items
\* are started together.
PageReturn ==
    /\ sem.flight.page > 0
    /\ \/ sem' = [sem EXCEPT !.value = release(@, "json"), !.flight.page = 0,
                                !.todo.page = 1]
       \/ \E n \in Listed(sem.workflow) : \E outcome \in CallOutcomes :
             sem' = [sem EXCEPT !.value = release(@, outcome), !.flight.page = 0,
                                !.listing = FALSE, !.todo = fan_out(sem.workflow, n),
                                !.failed = @ \/ Failing(outcome)]
    /\ UNCHANGED <<syncVars, pg, hv>>

\* asyncio.gather has every result: the workflow returns its batches.
EndWorkflow ==
    /\ sem.workflow # "none" /\ ~sem.listing
    /\ sem.todo = NoCalls /\ sem.flight = NoCalls
    /\ sem' = SemIdle
    /\ UNCHANGED <<syncVars, pg, hv>>

NextFanOut ==
    \/ BeginWorkflow
    \/ Acquire
    \/ Release
    \/ PageReturn
    \/ EndWorkflow

SpecFanOut == Init /\ [][NextFanOut]_vars

\* The event loop resumes a call that waits for the semaphore once a permit
\* is free, and every request returns within the client's timeout.
FairFanOut == SpecFanOut /\ WF_vars(Acquire) /\ WF_vars(Release) /\ WF_vars(PageReturn)

---------------------------------------------------------------------------
(* The harvester's workflows: the batches built from the gathered results *)

MaxListed == 3

\* _make_request returned None: the call failed. "not x" holds of it.
NoResponse == [truthy |-> FALSE]

\* to_formatted_line_of_business
to_formatted_line_of_business(value) ==
    IF value = Txt("PREV") THEN PyStr(<<"P", "r", "e", "v", "i", "d", "ê", "n", "c", "i", "a">>)
    ELSE IF value = Txt("VIDA") THEN PyStr(<<"V", "i", "d", "a">>)
    ELSE value

\* Faulty variant: the title status read for every line of business.
to_product_status_titulo(customer_product) ==
    LET line == customer_product.linhaNegocio
        value == IF line = Txt("PREV") \/ line = Txt("VIDA")
                 THEN customer_product.situacaoTitulo
                 ELSE PyStr(<< >>)
    IN  IF value = Txt("A") THEN Ativo
        ELSE IF value = Txt("C") THEN Cancelado
        ELSE value

\* to_product_status: a key the product does not have reads as None.
to_product_status(customer_product) ==
    LET line == customer_product.linhaNegocio
        value == IF line = Txt("PREV") THEN customer_product.situacaoCertificado
                 ELSE IF line = Txt("VIDA") THEN customer_product.situacaoTitulo
                 ELSE PyStr(<< >>)
    IN  IF value = Txt("A") THEN Ativo
        ELSE IF value = Txt("C") THEN Cancelado
        ELSE value

\* _parse_cliente_unico, the keys every Customer record has from the listing
\* item and from the details; the contact keys, copied from the details the
\* same way, are left out.
parse_cliente_unico(item, details) ==
    [id_cliente |-> details.codigoBaseAgrupada, nome |-> details.nome,
     documento |-> PyStr(item.documento.tipo \o <<":", " ">> \o item.documento.numeroFormatado),
     titular_cpf |-> details.titularCPF]

\* _parse_produto_prev and _parse_produto_vida, the identifying keys
parse_produto_prev(product, id_cliente) ==
    [id_cliente |-> id_cliente,
     linha_negocio |-> to_formatted_line_of_business(product.linhaNegocio),
     numero_proposta |-> product.proposta, numero_certificado |-> product.certificado,
     situacao_produto |-> to_product_status(product)]

parse_produto_vida(product, benefit, id_cliente) ==
    [id_cliente |-> id_cliente,
     linha_negocio |-> to_formatted_line_of_business(product.linhaNegocio),
     numero_proposta |-> product.proposta, numero_certificado |-> product.certificado,
     situacao_produto |-> to_product_status(product),
     nome_cobertura |-> benefit.nomeBeneficio]

\* _parse_proposal_status, the keys that tell proposals and installments apart
parse_proposal_status(item, installment) ==
    [nome |-> item.nomeProponente, cpf |-> item.cpfProponente,
     proposta |-> item.numeroProposta, status_proposta |-> item.statusFase,
     valor |-> installment.valor, vencimento |-> installment.agendamentoDebito,
     competencia |-> installment.competencia]

\* A dict as Python keeps it: the keys in the order of their first assignment
HasKey(d, key) == \E k \in 1..Len(d) : d[k].key = key
dict_set(d, key, value) ==
    IF HasKey(d, key)
    THEN [k \in 1..Len(d) |-> IF d[k].key = key THEN [key |-> key, value |-> value] ELSE d[k]]
    ELSE Append(d, [key |-> key, value |-> value])
dict_values(d) == [k \in 1..Len(d) |-> d[k].value]

\* Faulty variant: every occurrence of an id assigns its record.
assign_always(clientes_unicos, id_cliente) == TRUE

\* "if id_cliente not in clientes_unicos"
assign_if_new(clientes_unicos, id_cliente) == ~HasKey(clientes_unicos, id_cliente)

\* Faulty variant: one record per life product, for its first benefit.
vida_of_first(product, beneficios, id_cliente) ==
    IF beneficios = << >> THEN << >>
    ELSE <<parse_produto_vida(product, Head(beneficios), id_cliente)>>

RECURSIVE vida_of(_, _, _)
vida_of(product, beneficios, id_cliente) ==
    IF beneficios = << >> THEN << >>
    ELSE <<parse_produto_vida(product, Head(beneficios), id_cliente)>>
         \o vida_of(product, Tail(beneficios), id_cliente)

\* The loop over the products of one customer: what it appends to
\* produtos_prev and to produtos_vida
RECURSIVE products_of(_, _)
products_of(products, id_cliente) ==
    IF products = << >> THEN [prev |-> << >>, vida |-> << >>]
    ELSE LET product == Head(products)
             rest == products_of(Tail(products), id_cliente)
         IN  IF product.linhaNegocio = Txt("PREV")
             THEN [rest EXCEPT !.prev = <<parse_produto_prev(product, id_cliente)>> \o @]
             ELSE IF product.linhaNegocio = Txt("VIDA")
             THEN [rest EXCEPT !.vida = vida_of(product, product.vida.beneficios,
                                                id_cliente) \o @]
             ELSE rest

\* One pass of the loop of get_customers over (item, details_res, products_res)
customer_body(h, result) ==
    IF ~result.details_res.truthy \/ ~result.products_res.truthy THEN h
    ELSE
    LET details == result.details_res.detalhesCliente.clientes[1]
        id_cliente == details.codigoBaseAgrupada
        products == products_of(result.products_res.produtosCliente.listarProdutos,
                                id_cliente)
    IN  IF ~Truthy(id_cliente) THEN h
        ELSE [h EXCEPT
                !.clientes_unicos =
                    IF assign_if_new(@, id_cliente)
                    THEN dict_set(@, id_cliente, parse_cliente_unico(result.item, details))
                    ELSE @,
                !.produtos_prev = @ \o products.prev,
                !.produtos_vida = @ \o products.vida]

\* Faulty variant: a record for every detail call that returned something.
has_installment_any(details) == details.truthy

\* "if details and details.get('resultado')"
has_installment(details) == details.truthy /\ details.resultado.truthy

\* One element of the comprehension of get_proposal_status over (item, details)
proposal_body(h, result) ==
    IF has_installment(result.details)
    THEN [h EXCEPT !.final_data =
                      Append(@, parse_proposal_status(result.item, result.details.resultado))]
    ELSE h

ListedCustomer(tipo, numero) ==
    [codigoBaseAgrupada |-> Txt("b1"),
     documento |-> [tipo |-> tipo, numeroFormatado |-> numero]]
ItemA == ListedCustomer(<<"C", "P", "F">>, RawDoc1)
ItemB == ListedCustomer(<<"C", "P", "F">>, RawDoc2)

DetailsRes(id, nome) ==
    [truthy |-> TRUE,
     detalhesCliente |->
        [clientes |-> <<[codigoBaseAgrupada |-> id, nome |-> nome, titularCPF |-> PyNone]>>]]
ProductsRes(products) ==
    [truthy |-> TRUE, produtosCliente |-> [listarProdutos |-> products]]

Benefit(nome) == [nomeBeneficio |-> Txt(nome)]
Product(linha, proposta, beneficios) ==
    [linhaNegocio |-> Txt(linha), proposta |-> Txt(proposta), certificado |-> Txt("C1"),
     situacaoCertificado |-> Txt("A"), situacaoTitulo |-> Txt("A"),
     vida |-> [beneficios |-> beneficios]]

CustomerResult(item, details_res, products_res) ==
    [item |-> item, details_res |-> details_res, products_res |-> products_res]

\* What the two calls for a listed customer can come back with: two customers
\* that resolve to the internal id c1 and one that resolves to c2, a failed
\* details call, a failed products call, details without an internal id, and
\* products of a third line of business or without benefits.
CustomerResults ==
    {CustomerResult(ItemA, DetailsRes(Txt("c1"), Txt("Ana")),
                    ProductsRes(<<Product("PREV", "7", << >>)>>)),
     CustomerResult(ItemB, DetailsRes(Txt("c1"), Txt("Bia")),
                    ProductsRes(<<Product("VIDA", "8", <<Benefit("Morte"), Benefit("IPA")>>)>>)),
     CustomerResult(ItemA, NoResponse, ProductsRes(<<Product("PREV", "7", << >>)>>)),
     CustomerResult(ItemA, DetailsRes(Txt("c1"), Txt("Ana")), NoResponse),
     CustomerResult(ItemA, DetailsRes(PyNone, Txt("Ana")),
                    ProductsRes(<<Product("PREV", "7", << >>)>>)),
     CustomerResult(ItemB, DetailsRes(Txt("c2"), Txt("Bia")),
                    ProductsRes(<<Product("AUTO", "9", << >>), Product("PREV", "9", << >>),
                                  Product("VIDA", "9", << >>)>>))}

ListedProposal(numero) ==
    [nomeProponente |-> Txt("Ana"), cpfProponente |-> PyStr(RawDoc1),
     numeroProposta |-> Txt(numero), statusFase |-> Txt("Emitida")]

\* The first-installment response: one with an empty "resultado", or one with
\* an installment.
NoInstallment ==
    [truthy |-> TRUE,
     resultado |-> [truthy |-> FALSE, valor |-> PyNone, agendamentoDebito |-> PyNone,
                    competencia |-> PyNone]]
Installment(valor) ==
    [truthy |-> TRUE,
     resultado |-> [truthy |-> TRUE, valor |-> PyNum(valor),
                    agendamentoDebito |-> DateText("dmy", 1), competencia |-> Txt("01/2024")]]

ProposalResult(item, details) == [item |-> item, details |-> details]

ProposalResults ==
    {ProposalResult(ListedProposal("7"), NoResponse),
     ProposalResult(ListedProposal("7"), NoInstallment),
     ProposalResult(ListedProposal("7"), Installment("10.0")),
     ProposalResult(ListedProposal("8"), NoResponse),
     ProposalResult(ListedProposal("8"), Installment("20.0"))}

GatheredFrom(results) == UNION {[1..n -> results] : n \in 0..MaxListed}

\* results = await asyncio.gather(...): one result per listed item, in the
\* order of the listing.
Gather(workflow, results) ==
    /\ pc = "idle" /\ sem.workflow = "none" /\ hv.workflow = "none"
    /\ hv' = [HvIdle EXCEPT !.workflow = workflow, !.results = results]
    /\ UNCHANGED <<syncVars, pg, sem>>

GatherCustomers == \E results \in GatheredFrom(CustomerResults) : Gather("customers", results)

GatherProposals == \E results \in GatheredFrom(ProposalResults) : Gather("proposals", results)

\* The result of a call that has not returned yet
Pending == [pending |-> TRUE]

\* Faulty variant: the gather is over with the first result.
gathered_first(results) == results[1] # Pending

\* "results = await asyncio.gather(...)" goes on when every call has returned.
gathered(results) == \A k \in 1..Len(results) : results[k] # Pending

CustomerStep ==
    /\ hv.workflow = "customers" /\ ~hv.returned /\ hv.i <= Len(hv.results)
    /\ gathered(hv.results)
    /\ hv' = [customer_body(hv, hv.results[hv.i]) EXCEPT !.i = @ + 1]
    /\ UNCHANGED <<syncVars, pg, sem>>

ProposalStep ==
    /\ hv.workflow = "proposals" /\ ~hv.returned /\ hv.i <= Len(hv.results)
    /\ gathered(hv.results)
    /\ hv' = [proposal_body(hv, hv.results[hv.i]) EXCEPT !.i = @ + 1]
    /\ UNCHANGED <<syncVars, pg, sem>>

Sheet(name, data) == [name |-> name, data |-> data]

\* The return statement of the workflow
ReturnSheets ==
    /\ hv.workflow # "none" /\ ~hv.returned /\ hv.i > Len(hv.results)
    /\ hv' = [hv EXCEPT
                !.returned = TRUE,
                !.sheets =
                    IF hv.workflow = "customers"
                    THEN <<Sheet(NomeClientes, dict_values(hv.clientes_unicos)),
                           Sheet(NomePrevidencia, hv.produtos_prev),
                           Sheet(NomeVida, hv.produtos_vida)>>
                    ELSE <<Sheet(NomePropostas, hv.final_data)>>]
    /\ UNCHANGED <<syncVars, pg, sem>>

\* The status codes of a product as the API gives them: the code of the
\* certificate and the code of the title, each "A", "C", another text, or
\* missing.
StatusCodes == {Txt("A"), Txt("C"), Txt("S"), Txt("a"), Ativo, PyNone}

StatusProducts ==
    {[Product(linha, "7", <<Benefit("Morte")>>) EXCEPT
         !.situacaoCertificado = certificado, !.situacaoTitulo = titulo] :
        linha \in {"PREV", "VIDA", "AUTO"}, certificado \in StatusCodes,
        titulo \in StatusCodes}

\* The customer workflow for one listed customer with one product
GatherProduct ==
    \E product \in StatusProducts :
       Gather("customers",
              <<CustomerResult(ItemA, DetailsRes(Txt("c1"), Txt("Ana")),
                               ProductsRes(<<product>>))>>)

NextStatus ==
    \/ GatherProduct
    \/ CustomerStep
    \/ ReturnSheets

SpecStatus == Init /\ [][NextStatus]_vars

\* asyncio.gather starts the calls of the n listed items together.
IssueCalls ==
    /\ pc = "idle" /\ sem.workflow = "none" /\ hv.workflow = "none"
    /\ \E workflow \in {"customers", "proposals"} : \E n \in 0..MaxListed :
          hv' = [HvIdle EXCEPT !.workflow = workflow, !.results = [k \in 1..n |-> Pending]]
    /\ UNCHANGED <<syncVars, pg, sem>>

\* The calls for one listed item return, in whatever order the answers come:
\* get_customer_details with the two results of its customer,
\* get_proposal_details with the result of its proposal. The result takes the
\* place of its item in the list.
CallReturn ==
    /\ hv.workflow # "none" /\ ~hv.returned
    /\ \E k \in 1..Len(hv.results) :
          /\ hv.results[k] = Pending
          /\ \E result \in IF hv.workflow = "customers" THEN CustomerResults
                            ELSE ProposalResults :
                hv' = [hv EXCEPT !.results[k] = result]
    /\ UNCHANGED <<syncVars, pg, sem>>

NextGather ==
    \/ IssueCalls
    \/ CallReturn
    \/ CustomerStep
    \/ ProposalStep
    \/ ReturnSheets

SpecGather == Init /\ [][NextGather]_vars

\* Every call returns: httpx answers or raises within its timeout, and
\* _make_request returns None for what it raises; the loops and the return
\* statement do not wait for anything.
FairGather ==
    /\ SpecGather
    /\ WF_vars(CallReturn) /\ WF_vars(CustomerStep) /\ WF_vars(ProposalStep)
    /\ WF_vars(ReturnSheets)

NextHarvest ==
    \/ GatherCustomers
    \/ GatherProposals
    \/ CustomerStep
    \/ ProposalStep
    \/ ReturnSheets

SpecHarvest == Init /\ [][NextHarvest]_vars

---------------------------------------------------------------------------
(* Vocabulary of the properties *)

Table(d, kind) ==
    CASE kind = "clientes" -> d.clients
      [] kind = "propostas" -> d.proposals
      [] kind = "inadimplentes" -> d.defaulters
      [] OTHER -> d.products

HasRow(rows, id) == \E r \in rows : r.id = id
RowOf(rows, id) == CHOOSE r \in rows : r.id = id

\* The document the operation files a record under
Cpf(kind, rec) ==
    CASE kind = "propostas" -> cpf_proposta(rec, id_cpf_map)
      [] kind = "inadimplentes" -> cpf_inadimplente(rec, id_cpf_map)
      [] OTHER -> cpf_produto(rec, id_cpf_map)

\* The values an operation binds for a record, by column
Fields(kind, rec, client_id) ==
    CASE kind = "propostas" ->
            ProposalFields(client_id, broker_id, rec,
                           format_db_date(Get(rec.vencimento, PyNone)))
      [] kind = "inadimplentes" ->
            DefaulterFields(PyStr(corretora_nome), rec, cpf_inadimplente(rec, id_cpf_map),
                            calculate_delay_days(Get(rec.vencimento_original, PyNone),
                                                 Get(rec.vencimento_atual, PyNone), now))
      [] kind = "vida" -> params_data_vida(client_id, PyStr(corretora_nome), rec)
      [] OTHER -> params_data_previdencia(client_id, PyStr(corretora_nome), rec)

\* The columns the UPDATE of an operation writes
Written(kind) ==
    CASE kind = "propostas" -> ProposalWritten
      [] kind = "inadimplentes" -> DefaulterWritten
      [] OTHER -> ProductWritten

\* The columns has_changes compares
Compared(kind) ==
    CASE kind = "propostas" ->
            {"status_proposta", "forma_pagamento", "valor", "vencimento", "competencia",
             "status_pagamento", "motivo_pendencia"}
      [] kind = "inadimplentes" ->
            {"original_due_date", "current_due_date", "contribution_value",
             "payment_status", "payment_method", "delay_days"}
      [] kind = "vida" ->
            {"product_status", "insured_capital", "last_payment", "next_payment",
             "paid_installments_quantity", "pending_installments_quantity"}
      [] OTHER ->
            {"product_status", "insured_capital", "last_payment",
             "paid_installments_quantity", "pending_installments_quantity"}

LoopBody(kind, s, rec, fault) ==
    CASE kind = "clientes" -> cliente_body(s, rec, broker_id)
      [] kind = "propostas" -> proposta_body(s, rec, broker_id, id_cpf_map, fault)
      [] kind = "inadimplentes" ->
            inadimplente_body(s, rec, PyStr(corretora_nome), id_cpf_map, now)
      [] kind = "vida" ->
            produto_vida_body(s, rec, broker_id, PyStr(corretora_nome), id_cpf_map, fault)
      [] OTHER ->
            produto_previdencia_body(s, rec, broker_id, PyStr(corretora_nome), id_cpf_map,
                                     fault)

\* Record k of the batch synchronized on its own against the store as it was
\* when the run started: what the loop body does with it.
Alone(k) ==
    LoopBody(op, [db |-> snap, tx |-> snap, seq |-> seq, cnt |-> InitCnt], batch[k], "none").o

\* The stored row the lookup of the operation finds for record k, 0 for none
StoredId(k) == IF Alone(k).out \in {"existing", "updated"} THEN Alone(k).id ELSE 0

\* In how many compared columns record k differs from its stored row
NumDiff(k) ==
    LET row == RowOf(Table(snap, op), StoredId(k))
        fields == Fields(op, batch[k], Alone(k).client)
    IN  Cardinality({c \in Compared(op) : row[c] # fields[c]})

\* The step the loop takes now processes a record that is a dict
Stepping == pc = "loop" /\ idx <= Len(batch) /\ idx' = idx + 1 /\ IsDict(batch[idx])

\* The step raised: an exception in the body, or the stub INSERT failing
Raised ==
    \/ log'[idx].out = "error"
    \/ log'[idx].out = "no_client" /\ faulted' /\ ~faulted

---------------------------------------------------------------------------
(* Fault isolation and idempotence *)

\* C1: in every batch operation, when a record raises, only that record's work
\* is discarded: every row whose INSERT the run counted is in the store after
\* the batch has committed.
C1_EarlierWritesSurvive ==
    pc = "done" =>
        \A k \in 1..Len(log) :
            log[k].out = "inserted" => HasRow(Table(db, op), log[k].id)

\* C2: the second run of an identical record list, with the store and the date
\* untouched in between, inserts nothing and updates nothing, and no record of
\* it is left without being found; whatever the list holds.
C2_SecondRunWritesNothing ==
    rerun = "same" =>
        /\ cnt.inseridos = 0
        /\ cnt.atualizados = 0
        /\ \A k \in 1..Len(log) : log[k].out \notin {"inserted", "updated", "error"}

---------------------------------------------------------------------------
(* Customer resolution *)

\* The step processes a record of a dependent operation that gets as far as
\* the customer lookup, and its document has no customer row for the tenant.
CustomerAbsent ==
    /\ Stepping /\ op \in Dependent
    /\ log'[idx].out \notin {"skipped", "cancelled"}
    /\ Truthy(Cpf(op, batch[idx]))
    /\ get_client_id(tx, Cpf(op, batch[idx]), TENANT_ID) = 0

\* The step added the minimal customer row for the record's document, and the
\* row it inserted or updated for the record carries the new customer's id.
StubCreated ==
    LET o == log'[idx]
    IN  /\ o.out \in {"inserted", "updated", "existing"}
        /\ ~HasRow(tx.clients, o.client)
        /\ \E r \in tx'.clients :
              /\ tx'.clients = tx.clients \cup {r}
              /\ r = StubRow(o.client, Cpf(op, batch[idx]), r.nome, broker_id, TENANT_ID)
              /\ r.nome.ty = "str"
        /\ o.out \in {"inserted", "updated"} =>
              /\ HasRow(Table(tx', op), o.id)
              /\ RowOf(Table(tx', op), o.id).client_id = o.client

C3_Step ==
    CustomerAbsent =>
        IF op = "inadimplentes"
        THEN /\ tx' = tx /\ seq' = seq
             /\ cnt' = Bump(cnt, "pulados")
             /\ log'[idx].out = "no_client"
        ELSE Raised \/ StubCreated

C4_Step ==
    (/\ Stepping /\ op = "propostas"
     /\ log'[idx].out \in {"inserted", "updated", "existing"}) =>
        LET o == log'[idx]
            doc == Cpf(op, batch[idx])
            known == get_client_id(tx, doc, TENANT_ID)
        IN  /\ IF known = 0
               THEN /\ ~HasRow(tx.clients, o.client)
                    /\ tx'.clients = tx.clients
                          \cup {StubRow(o.client, doc,
                                        safe_str(Get(batch[idx].nome,
                                                     Txt("Cliente nao informado"))),
                                        broker_id, TENANT_ID)}
               ELSE tx'.clients = tx.clients /\ o.client = known
            /\ Cardinality({r \in tx'.clients :
                               r.tenant_id = TENANT_ID /\ r.documento = doc}) = 1
            /\ o.out \in {"inserted", "updated"} =>
                  /\ HasRow(tx'.proposals, o.id)
                  /\ RowOf(tx'.proposals, o.id).client_id = o.client
                  /\ RowOf(tx'.clients, o.client).documento = doc

---------------------------------------------------------------------------
(* Change detection *)

Upsert == {"propostas", "inadimplentes", "vida", "previdencia"}

\* C5: a record whose stored row was found is updated exactly when at least
\* one of the columns the UPDATE writes differs from the stored row, and is
\* counted as existing only when none differs.
C5_EveryWrittenColumnCompared ==
    [][(/\ Stepping /\ op \in Upsert
        /\ log'[idx].out \in {"existing", "updated"}) =>
          LET o == log'[idx]
              row == RowOf(Table(tx, op), o.id)
              fields == Fields(op, batch[idx], o.client)
          IN  (o.out = "updated") <=> (\E c \in Written(op) : row[c] # fields[c])]_vars

\* The run is over, nothing raised in it, every record of the list has its
\* stored row, record k differs from its row in exactly one compared column
\* and no other record differs from its row in any.
OneRecordOneColumn(k) ==
    /\ pc = "done" /\ op \in Upsert
    /\ ~faulted /\ \A j \in 1..Len(log) : log[j].out # "error"
    /\ \A j \in 1..Len(batch) : StoredId(j) # 0
    /\ NumDiff(k) = 1
    /\ \A j \in 1..Len(batch) : j # k => NumDiff(j) = 0

\* No two records of the list have the same stored row (the same natural key)
DistinctKeys == \A i, j \in 1..Len(batch) : i # j => StoredId(i) # StoredId(j)

\* One update, of record k, no insert, and every other stored row as it was
OneUpdate(k) ==
    /\ cnt.atualizados = 1 /\ cnt.inseridos = 0
    /\ log[k].out = "updated" /\ log[k].id = StoredId(k)
    /\ \A c \in Compared(op) :
          RowOf(Table(db, op), StoredId(k))[c] = Fields(op, batch[k], log[k].client)[c]
    /\ \A r \in Table(snap, op) : r.id # StoredId(k) => r \in Table(db, op)
    /\ Cardinality(Table(db, op)) = Cardinality(Table(snap, op))

---------------------------------------------------------------------------
(* Cancelled products *)

\* The record's status is the text Cancelado, in whatever case
StatusCancelled(v) == v.ty = "str" /\ upper(v.s) = CANCELADO

\* C7: a life or pension record whose status is Cancelado, in any case, is
\* skipped and counted as cancelled: it writes no row, the cancelled counter
\* counts exactly those records, and no product row of the store, committed or
\* not, has the status Cancelado.
C7_CancelledNeverWritten ==
    /\ op \in {"vida", "previdencia"} =>
          /\ \A k \in 1..Len(log) :
                (IsDict(batch[k]) /\ "situacao_produto" \in DOMAIN batch[k]
                 /\ StatusCancelled(batch[k].situacao_produto))
                    => (log[k].out = "cancelled" /\ log[k].id = 0)
          /\ cnt.cancelados =
                Cardinality({k \in 1..Len(log) :
                                StatusCancelled(batch[k].situacao_produto)})
    /\ \A r \in tx.products \cup db.products : ~StatusCancelled(r.product_status)

\* A committed life-product run with a lower-case "cancelado" record skipped
\* and another record inserted.
C7_Witness ==
    /\ op = "vida" /\ pc = "done" /\ cnt.cancelados = 1 /\ cnt.inseridos = 1
    /\ \E k \in 1..Len(batch) :
          /\ batch[k].situacao_produto.s[1] = "c"
          /\ log[k].out = "cancelled"
    /\ db.products # {}

---------------------------------------------------------------------------
(* Delay days *)

\* The due date that counts for a pending-payment record, as a day number:
\* vencimento_atual when it is set, vencimento_original otherwise; -1 when
\* that is missing or no date in either accepted format.
DueDay(rec) ==
    LET atual == Get(rec.vencimento_atual, PyNone)
        original == Get(rec.vencimento_original, PyNone)
        due == IF atual.ty = "none" \/ atual.s \in {<< >>, <<"0">>} THEN original ELSE atual
    IN  IF due.ty = "str" /\ Len(due.s) = 2 /\ due.s[1] \in {"dmy", "ymd"}
        THEN DayNum(due.s[2]) ELSE 0 - 1

\* Whole days from the due date to t when the due date is past, 0 otherwise
WholeDaysLate(rec, t) ==
    IF DueDay(rec) >= 0 /\ DueDay(rec) < t.day THEN t.day - DueDay(rec) ELSE 0

\* C8: calculate_delay_days is never negative: it is the number of whole days
\* from a past due date to now, and 0 for a due date today or later and for a
\* missing or unparseable one. A record with delay_days <= 0 writes no row,
\* and every defaulter row of the store has delay_days >= 1.
C8_DelayDays ==
    /\ op = "inadimplentes" =>
          /\ \A k \in 1..Len(batch) :
                LET d == calculate_delay_days(Get(batch[k].vencimento_original, PyNone),
                                              Get(batch[k].vencimento_atual, PyNone), now)
                IN  d >= 0 /\ d = WholeDaysLate(batch[k], now)
          /\ \A k \in 1..Len(log) :
                WholeDaysLate(batch[k], now) <= 0 =>
                    /\ log[k].out \in {"skipped", "no_client", "no_delay"}
                    /\ log[k].id = 0
    /\ \A r \in tx.defaulters \cup db.defaulters : r.delay_days >= 1

\* A pending payment two days overdue was inserted with delay_days = 2, and
\* the second run, a day later, updated it to 3.
C8_Witness ==
    /\ op = "inadimplentes" /\ pc = "done" /\ rerun = "later"
    /\ log[1].out = "updated"
    /\ \E r \in snap.defaulters : r.delay_days = 2
    /\ \E r \in db.defaulters : r.delay_days = 3

---------------------------------------------------------------------------
(* Pagination *)

\* n consecutive page numbers from f on
PageRun(f, n) == [k \in 1..n |-> f + k - 1]

\* The listing is over, the endpoint had pg.served non-empty pages and an
\* empty one after them, and no request failed.
ListedToTheEnd == pg.endpoint \in Endpoints /\ pg.done /\ ~pg.endless /\ pg.last # "failed"

FirstRequested == IF pg.endpoint = "pending" THEN 0 ELSE 1

\* C9 (as the code has it): N non-empty pages and then an empty one make N+1
\* requests, for consecutive pages from 1 (customers, proposals) or 0 (pending
\* payments), and the list is the N pages in order; except that the
\* pending-payment listing of N >= 1000 pages makes 1000 requests, for pages
\* 0..999, and returns those 1000 pages only.
C9_Requests ==
    ListedToTheEnd =>
        IF pg.endpoint = "pending" /\ pg.served >= PAGE_LIMIT
        THEN /\ pg.requests = PageRun(0, PAGE_LIMIT)
             /\ pg.list = PageRun(0, PAGE_LIMIT)
        ELSE /\ pg.requests = PageRun(FirstRequested, pg.served + 1)
             /\ pg.list = PageRun(FirstRequested, pg.served)

\* C9 as stated: N+1 requests and all N pages, for every N and every endpoint.
C9_RequestsAnyN ==
    ListedToTheEnd =>
        /\ pg.requests = PageRun(FirstRequested, pg.served + 1)
        /\ pg.list = PageRun(FirstRequested, pg.served)

\* The pending-payment listing of two pages: requests 0, 1, 2.
C9_Witness ==
    /\ ListedToTheEnd /\ pg.endpoint = "pending" /\ pg.served = 2
    /\ pg.requests = <<0, 1, 2>> /\ pg.list = <<0, 1>> /\ pg.last = "empty"

\* C10: the pending-payment listing makes at most 1000 requests, for pages
\* within 0..999, and ends, even against an endpoint without an empty page;
\* the customer and proposal listings end only on a request that returned an
\* empty or missing list or failed.
C10_Termination ==
    /\ [](pg.endpoint = "pending" =>
            /\ Len(pg.requests) <= PAGE_LIMIT
            /\ \A k \in 1..Len(pg.requests) : pg.requests[k] \in 0..(PAGE_LIMIT - 1))
    /\ []((pg.endpoint \in {"customers", "proposals"} /\ pg.done)
            => pg.last \in {"empty", "failed"})
    /\ ((pg.endpoint = "pending") ~> pg.done)

\* The pending-payment listing against an endpoint without an empty page,
\* stopped by the cap after 1000 requests that all returned a page.
C10_Witness ==
    /\ pg.endpoint = "pending" /\ pg.endless /\ pg.done
    /\ Len(pg.requests) = PAGE_LIMIT /\ pg.last = "page"

---------------------------------------------------------------------------
(* Concurrency ceiling *)

InFlight ==
    sem.flight.page + sem.flight.details + sem.flight.products + sem.flight.installment

\* C11: at no point are more than CONCURRENCY_LIMIT calls of the API client in
\* flight, page, customer-detail, customer-product and proposal-detail calls
\* counted together, however many calls are waiting; the permits out and the
\* permits left always add up to the size of the pool.
C11_AtMostKInFlight ==
    /\ InFlight <= CONCURRENCY_LIMIT
    /\ sem.value >= 0
    /\ sem.value + InFlight = CONCURRENCY_LIMIT

\* The pool is exhausted by detail and product calls of the customer workflow
\* while further calls of both kinds wait for a permit.
C11_Witness ==
    /\ sem.workflow = "customers"
    /\ InFlight = CONCURRENCY_LIMIT /\ sem.value = 0
    /\ sem.flight.details > 0 /\ sem.flight.products > 0
    /\ sem.todo.details > 0 /\ sem.todo.products > 0

---------------------------------------------------------------------------
(* Files that cannot be synchronized *)

\* main has looked for the broker of the file and has none
BrokerUnresolved ==
    fl.stage \in {"propostas", "inadimplentes", "vida", "previdencia", "move", "end"}
    /\ fl.broker_id = 0

\* C12: a file for which the store connection was unavailable, or whose broker
\* could not be resolved, stays in the download folder: it is not moved to the
\* processed folder.
C12_LeftForRetry ==
    (fl.noconn \/ BrokerUnresolved) => fl.folder # "processados"

C13_Step ==
    /\ (fl'.called # fl.called /\ pc' = "noconn") =>
          (db' = db /\ tx' = tx /\ seq' = seq /\ cnt' = cnt /\ log' = log)
    /\ (pc = "noconn") => (db' = db)

\* C13: a batch function that gets no connection returns with the store, the
\* open transaction and the counters as they were, and commits nothing; and
\* when main has no broker id for a file, the store holds exactly the rows it
\* held when the file was opened, whatever sections the file has.
C13_NothingWritten ==
    /\ [][C13_Step]_vars
    /\ [](BrokerUnresolved => (db = fl.db0 /\ tx = fl.db0))

\* A file with all five sections and the name of no broker, with every
\* connection available: only the customer function was called, and main is
\* through with the file.
C13_Witness ==
    /\ fl.stage = "end" /\ fl.broker_id = 0 /\ ~fl.noconn
    /\ corretora_nome = CorretoraUnknown
    /\ fl.called = <<"clientes">>
    /\ \A kind \in Kinds : fl.data[kind] # << >>
    /\ db = fl.db0

---------------------------------------------------------------------------
(* Routing *)

\* The rule of the routing, on a section name that is a text
RuleKind(name) ==
    LET n == lower(name)
    IN  IF Contains(<<"c", "l", "i", "e", "n", "t", "e", "s">>, n) THEN "clientes"
        ELSE IF Contains(<<"p", "r", "o", "p", "o", "s", "t", "a", "s">>, n)
            \/ Contains(<<"s", "t", "a", "t", "u", "s">>, n) THEN "propostas"
        ELSE IF Contains(<<"p", "e", "n", "d", "e", "n", "t", "e", "s">>, n)
            \/ Contains(<<"i", "n", "a", "d", "i", "m", "p", "l", "e", "n", "t", "e", "s">>, n)
        THEN "inadimplentes"
        ELSE IF Contains(<<"p", "r", "o", "d", "u", "t", "o", "s">>, n)
            /\ Contains(<<"v", "i", "d", "a">>, n) THEN "vida"
        ELSE IF Contains(<<"p", "r", "o", "d", "u", "t", "o", "s">>, n)
            /\ Contains(<<"p", "r", "e", "v", "i", "d", "e", "n", "c", "i", "a">>, n)
                THEN "previdencia"
        ELSE "none"

\* The kind a section of the file is routed to, "none" for a section without
\* a name
SectionKind(k) ==
    LET name == fl.all_sheets_data[k].name
    IN  IF name.ty = "str" THEN RuleKind(name.s) ELSE "none"

\* The batch functions that are handed the list of section k
HandedTo(k) == {kind \in Kinds : fl.data[kind] = fl.all_sheets_data[k].data}

\* The kind of each batch name the harvester emits
HarvesterKind(name) ==
    CASE name = NomeClientes -> "clientes"
      [] name = NomePrevidencia -> "previdencia"
      [] name = NomeVida -> "vida"
      [] name = NomePendentes -> "inadimplentes"
      [] name = NomePropostas -> "propostas"
      [] OTHER -> "other"

\* C15: a section is handed to the batch function its lower-cased name selects
\* by the rule (clientes; propostas or status; pendentes or inadimplentes;
\* produtos and vida; produtos and previdencia, in this order) and to no
\* other, the last section of a kind replacing the earlier ones; a section
\* with any other name, or with none, is handed to no function; and the five
\* names the harvester emits select the function of their own kind.
C15_Routing ==
    fl.stage = "clientes" =>
        \A k \in 1..Len(fl.all_sheets_data) :
            LET name == fl.all_sheets_data[k].name
                later == \E j \in (k + 1)..Len(fl.all_sheets_data) :
                            SectionKind(j) = SectionKind(k)
            IN  /\ HandedTo(k) = IF SectionKind(k) = "none" \/ later THEN {}
                                 ELSE {SectionKind(k)}
                /\ (name.ty = "str" /\ HarvesterKind(name.s) # "other") =>
                      SectionKind(k) = HarvesterKind(name.s)

\* A file with the sections Produtos Previdencia and Produtos Vida: each list
\* went to the function of its kind, and the other three got nothing.
C15_Witness ==
    /\ fl.stage = "clientes" /\ Len(fl.all_sheets_data) = 2
    /\ fl.all_sheets_data[1].name = PyStr(NomePrevidencia)
    /\ fl.all_sheets_data[2].name = PyStr(NomeVida)
    /\ fl.data.previdencia = RouteData(1) /\ fl.data.vida = RouteData(2)
    /\ fl.data.clientes = << >> /\ fl.data.propostas = << >>
    /\ fl.data.inadimplentes = << >>

---------------------------------------------------------------------------
(* The index from the harvest's customer ids to documents *)

IsDigitChar(c) == c \in {"0", "1", "2", "3", "4", "5", "6", "7", "8", "9"}

\* The digit characters of a text, in order
OnlyDigits(t) == SelectSeq(t, IsDigitChar)

NonEmpty(v) == v.ty \in {"str", "num"} /\ v.s # << >>

\* Customer record k of the file has an internal id and a document
HasBoth(k) ==
    /\ NonEmpty(fl.data.clientes[k].id_cliente)
    /\ NonEmpty(fl.data.clientes[k].documento)

\* The index holds an entry for exactly the ids of the customer records that
\* have an id and a document, and the entry is the document's digits.
IndexOfCustomers ==
    /\ DOMAIN id_cpf_map =
          {fl.data.clientes[k].id_cliente :
              k \in {j \in 1..Len(fl.data.clientes) : HasBoth(j)}}
    /\ \A k \in 1..Len(fl.data.clientes) :
          (/\ HasBoth(k)
           /\ \A j \in (k + 1)..Len(fl.data.clientes) :
                 HasBoth(j) => fl.data.clientes[j].id_cliente # fl.data.clientes[k].id_cliente)
          => id_cpf_map[fl.data.clientes[k].id_cliente]
                = IF fl.data.clientes[k].documento.ty = "str"
                  THEN PyStr(OnlyDigits(fl.data.clientes[k].documento.s))
                  ELSE fl.data.clientes[k].documento

\* The step handles a proposal or pending-payment record, complete but for its
\* customer, that names an internal id the index does not have.
IdNotIndexed ==
    /\ Stepping /\ op \in {"propostas", "inadimplentes"}
    /\ NonEmpty(Get(batch[idx].id_cliente, PyNone))
    /\ Get(batch[idx].id_cliente, PyNone) \notin DOMAIN id_cpf_map
    /\ op = "propostas" =>
          /\ NonEmpty(batch[idx].proposta)
          /\ format_db_date(batch[idx].vencimento) # PyNone

OwnDocument == IF op = "propostas" THEN batch[idx].cpf ELSE batch[idx].cpf_cliente

C20_Step ==
    IdNotIndexed =>
        LET o == log'[idx]
            own == OwnDocument
        IN  IF own.ty = "str" /\ OnlyDigits(own.s) # << >>
            THEN /\ o.out \in {"inserted", "updated", "existing", "no_delay", "no_client"}
                 /\ o.client # 0 =>
                       RowOf(tx'.clients, o.client).documento = PyStr(OnlyDigits(own.s))
                 /\ o.out = "no_client" =>
                       /\ get_client_id(tx, PyStr(OnlyDigits(own.s)), TENANT_ID) = 0
                       /\ op = "propostas" => Raised
            ELSE o.out = "skipped" /\ tx' = tx

\* C20: the index built from the Customer section maps an internal id to the
\* digits of the document for exactly the customer records that have both. A
\* proposal or pending-payment record whose id is not in the index is looked
\* up without an exception: with a document of its own it is filed under the
\* customer of that document's digits (a pending payment whose customer is
\* not stored, and a proposal whose customer row cannot be inserted, are left
\* out), and without one it is skipped.
C20_IndexAndFallback ==
    /\ [](fl.stage \notin {"none", "failed"} => IndexOfCustomers)
    /\ [][C20_Step]_vars

\* A proposal that names the id c9, which the index built from three customer
\* records does not have, was inserted under the customer of its own document.
C20_Witness ==
    /\ op = "propostas" /\ DOMAIN id_cpf_map = {Txt("c1")}
    /\ Len(fl.data.clientes) = 3
    /\ \E k \in 1..Len(log) :
          /\ batch[k].id_cliente = Txt("c9") /\ batch[k].cpf = PyStr(RawDoc2)
          /\ log[k].out = "inserted"
          /\ RowOf(tx.clients, log[k].client).documento = PyStr(RawDoc2)

---------------------------------------------------------------------------
(* Counters of a batch operation *)

\* The sum of the counters an operation reports
Counted ==
    cnt.inseridos + cnt.atualizados + cnt.existentes + cnt.pulados + cnt.cancelados
    + cnt.sem_atraso

\* C14: when a batch operation has finished, its counters (inserted, updated,
\* unchanged, skipped, cancelled, no delay) add up to the number of records of
\* the batch: every record, one that raised included, is in exactly one counter.
C14_CountersCoverBatch == pc = "done" => Counted = Len(batch)

---------------------------------------------------------------------------
(* Documents *)

DigitsOnly(v) == IsStr(v) /\ v.s # << >> /\ \A k \in 1..Len(v.s) : IsDigitChar(v.s[k])

DocumentValues ==
    {PyStr(RawDoc1), PyStr(RawDoc2), PyStr(ListedDoc1), PyStr(ShortDoc), PyStr(<< >>),
     Txt("abc"), PyNone, PyAbsent, PyNum("123")}

\* The document the step of the loop looks a customer up by
LookupDocument ==
    IF op = "clientes" THEN clean_cpf(Get(batch[idx].documento, PyStr(<< >>)))
    ELSE Cpf(op, batch[idx])

\* The step looked a customer up, or created one
LookedUp == log'[idx].client # 0 \/ log'[idx].out = "no_client"

C16_Step == (Stepping /\ LookedUp) => DigitsOnly(LookupDocument)

\* C16: clean_cpf keeps the digit characters of a string, in their order
\* ('123.456.789-09' gives '12345678909'), and returns anything that is not a
\* string unchanged; no step of a batch operation looks up or creates a customer
\* with a document that is empty or has a character other than a digit, and
\* the document of every customer row of the tenant and of every pending
\* payment row is a non-empty string of digits.
C16_DigitsOnly ==
    /\ [][C16_Step]_vars
    /\ [](/\ clean_cpf(PyStr(RawDoc1)) = PyStr(<<"1", "2", "3", "4", "5", "6", "7", "8", "9", "0", "9">>)
          /\ \A v \in DocumentValues :
                clean_cpf(v) = IF v.ty = "str" THEN PyStr(OnlyDigits(v.s)) ELSE v
          /\ \A r \in tx.clients \cup db.clients :
                r.tenant_id = TENANT_ID => DigitsOnly(r.documento)
          /\ \A r \in tx.defaulters \cup db.defaulters :
                r.tenant_id = TENANT_ID => DigitsOnly(r.client_cpf))

\* A customer listed with the document 'CPF: 123.456.789-09' has been inserted
\* with the document '12345678909'.
C16_Witness ==
    /\ op = "clientes" /\ pc = "done"
    /\ \E k \in 1..Len(batch) :
          /\ batch[k].documento = PyStr(ListedDoc1)
          /\ log[k].out = "inserted"
          /\ HasRow(tx.clients, log[k].id)
          /\ RowOf(tx.clients, log[k].id).documento = PyStr(<<"1", "2", "3", "4", "5", "6", "7", "8", "9", "0", "9">>)

---------------------------------------------------------------------------
(* Tenants *)

OtherTenants(d) ==
    [clients |-> {r \in d.clients : r.tenant_id # TENANT_ID},
     proposals |-> {r \in d.proposals : r.tenant_id # TENANT_ID},
     defaulters |-> {r \in d.defaulters : r.tenant_id # TENANT_ID},
     products |-> {r \in d.products : r.tenant_id # TENANT_ID}]

\* The rows of the synchronizer's tenant that are filed under a customer
FiledRows(d) ==
    {r \in d.proposals \cup d.defaulters \cup d.products : r.tenant_id = TENANT_ID}

\* The row an outcome names, where it is still there, is a row of the tenant
OfTenant(rows, id) == \A r \in rows : r.id = id => r.tenant_id = TENANT_ID

\* C17: the rows of other tenants are never changed, removed or added to; a
\* record is matched only against rows of the tenant TENANT_ID (the customer
\* it is filed under and the row it is found in are rows of that tenant), and
\* no row of the tenant is filed under a customer of another tenant.
C17_TenantScoped ==
    /\ OtherTenants(tx) = ForeignRows
    /\ OtherTenants(db) = ForeignRows
    /\ \A r \in FiledRows(tx) \cup FiledRows(db) : r.client_id # ForeignClient.id
    /\ \A k \in 1..Len(log) :
          /\ log[k].client # 0 => OfTenant(tx.clients, log[k].client)
          /\ log[k].id # 0 => OfTenant(Table(tx, op), log[k].id)

\* A proposal with the number of another tenant's proposal and the document
\* of another tenant's customer has been inserted as a new row, under a
\* customer that is not the other tenant's.
C17_Witness ==
    /\ pc = "done" /\ op = "propostas"
    /\ \E k \in 1..Len(batch) :
          /\ batch[k].proposta = PropostaBase.proposta
          /\ Cpf(op, batch[k]) = ForeignClient.documento
          /\ log[k].out = "inserted"
          /\ log[k].client # ForeignClient.id
          /\ log[k].id # ForeignProposal.id
          /\ HasRow(tx.proposals, log[k].id)

---------------------------------------------------------------------------
(* The batches of the customer workflow and of the proposal-status workflow *)

\* The results the loop has been through
Seen == 1..(hv.i - 1)

\* Result k of the customer workflow resolved to an internal id: both calls
\* returned something and the details name the id.
Resolved(k) ==
    /\ hv.results[k].details_res.truthy /\ hv.results[k].products_res.truthy
    /\ Truthy(hv.results[k].details_res.detalhesCliente.clientes[1].codigoBaseAgrupada)

InternalId(k) == hv.results[k].details_res.detalhesCliente.clientes[1].codigoBaseAgrupada

\* The first result in listing order that resolved to the id
FirstOf(id) ==
    CHOOSE k \in Seen : /\ Resolved(k) /\ InternalId(k) = id
                        /\ \A m \in Seen : (Resolved(m) /\ InternalId(m) = id) => k <= m

\* The Customer record of result k: the document of the listing item, and the
\* id and the name of the details
CustomerOf(k) ==
    [id_cliente |-> InternalId(k),
     nome |-> hv.results[k].details_res.detalhesCliente.clientes[1].nome,
     documento |-> PyStr(hv.results[k].item.documento.tipo \o <<":", " ">>
                         \o hv.results[k].item.documento.numeroFormatado),
     titular_cpf |-> PyNone]

Listing(k) == hv.results[k].products_res.produtosCliente.listarProdutos

\* How many Product records result k calls for: one for a pension product,
\* one per benefit of a life product
PensionCount(k) ==
    Cardinality({j \in 1..Len(Listing(k)) : Listing(k)[j].linhaNegocio = Txt("PREV")})
RECURSIVE BenefitCount(_, _)
BenefitCount(k, j) ==
    IF j = 0 THEN 0
    ELSE BenefitCount(k, j - 1)
         + IF Listing(k)[j].linhaNegocio = Txt("VIDA")
           THEN Len(Listing(k)[j].vida.beneficios) ELSE 0

RECURSIVE SumOver(_, _, _)
SumOver(n, k, life) ==
    IF k > n THEN 0
    ELSE SumOver(n, k + 1, life)
         + IF ~Resolved(k) THEN 0
           ELSE IF life THEN BenefitCount(k, Len(Listing(k))) ELSE PensionCount(k)

\* The Product records of one kind that come from result k
FromResult(products, k) ==
    {j \in 1..Len(products) :
        /\ products[j].id_cliente = InternalId(k)
        /\ \E n \in 1..Len(Listing(k)) : products[j].numero_proposta = Listing(k)[n].proposta}

Customers == dict_values(hv.clientes_unicos)

\* C18: the Customers batch of the customer workflow has at most one record
\* per internal id, and one for every id a listed customer resolved to; the
\* record of an id is built from the first listed customer, in listing order,
\* that resolved to it; the products of every listed customer that resolved
\* to an id are in the product batches, those of the later customers of an id
\* included; and the workflow returns these batches.
C18_FirstOccurrenceWins ==
    hv.workflow = "customers" =>
        /\ \A a, b \in 1..Len(Customers) :
              Customers[a].id_cliente = Customers[b].id_cliente => a = b
        /\ \A k \in Seen : Resolved(k) =>
              \E a \in 1..Len(Customers) : Customers[a] = CustomerOf(FirstOf(InternalId(k)))
        /\ \A a \in 1..Len(Customers) :
              \E k \in Seen : Resolved(k) /\ Customers[a].id_cliente = InternalId(k)
        /\ Len(hv.produtos_prev) = SumOver(hv.i - 1, 1, FALSE)
        /\ Len(hv.produtos_vida) = SumOver(hv.i - 1, 1, TRUE)
        /\ \A k \in Seen : Resolved(k) =>
              /\ PensionCount(k) > 0 => FromResult(hv.produtos_prev, k) # {}
              /\ BenefitCount(k, Len(Listing(k))) > 0 => FromResult(hv.produtos_vida, k) # {}
        /\ hv.returned =>
              /\ hv.sheets[1].data = Customers
              /\ hv.sheets[2].data = hv.produtos_prev
              /\ hv.sheets[3].data = hv.produtos_vida

\* Two listed customers resolved to the id c1: the workflow returned one
\* Customer record, built from the first, and the pension product of the
\* first with the two life benefits of the second.
C18_Witness ==
    /\ hv.workflow = "customers" /\ hv.returned /\ Len(hv.results) = 2
    /\ Resolved(1) /\ Resolved(2)
    /\ InternalId(1) = InternalId(2)
    /\ CustomerOf(1) # CustomerOf(2)
    /\ Len(hv.sheets[1].data) = 1
    /\ hv.sheets[1].data[1] = CustomerOf(1)
    /\ Len(hv.sheets[2].data) = 1
    /\ Len(hv.sheets[3].data) = 2

\* The detail call of result k succeeded with an installment
Succeeded(k) == hv.results[k].details.truthy /\ hv.results[k].details.resultado.truthy

Kept == {k \in Seen : Succeeded(k)}

\* The j-th of the results that succeeded, in listing order
KeptAt(j) == CHOOSE k \in Kept : Cardinality({m \in Kept : m < k}) = j - 1

\* The ProposalStatus record of result k: the listing item merged with the
\* installment
StatusOf(k) ==
    [nome |-> hv.results[k].item.nomeProponente, cpf |-> hv.results[k].item.cpfProponente,
     proposta |-> hv.results[k].item.numeroProposta,
     status_proposta |-> hv.results[k].item.statusFase,
     valor |-> hv.results[k].details.resultado.valor,
     vencimento |-> hv.results[k].details.resultado.agendamentoDebito,
     competencia |-> hv.results[k].details.resultado.competencia]

\* C19: the batch of the proposal-status workflow has one record for each
\* listed proposal whose first-installment call returned a non-empty
\* installment, and no other record: the records are in listing order, each
\* the listing item merged with its own installment, whatever became of the
\* calls of the other proposals; and the workflow returns this batch.
C19_RecordIffInstallment ==
    hv.workflow = "proposals" =>
        /\ Len(hv.final_data) = Cardinality(Kept)
        /\ Len(hv.final_data) <= Len(hv.results)
        /\ \A j \in 1..Len(hv.final_data) : hv.final_data[j] = StatusOf(KeptAt(j))
        /\ hv.returned => hv.sheets[1].data = hv.final_data

\* Three proposals were listed; the call of the first failed, the second came
\* back without an installment: the workflow returned the record of the third.
C19_Witness ==
    /\ hv.workflow = "proposals" /\ hv.returned /\ Len(hv.results) = 3
    /\ ~hv.results[1].details.truthy
    /\ hv.results[2].details.truthy /\ ~hv.results[2].details.resultado.truthy
    /\ Succeeded(3)
    /\ hv.sheets[1].data = <<StatusOf(3)>>

---------------------------------------------------------------------------
(* Product status *)

\* The status the claim gives a code
StatusOfCode(code) ==
    IF code = Txt("A") THEN PyStr(<<"A", "t", "i", "v", "o">>)
    ELSE IF code = Txt("C") THEN PyStr(<<"C", "a", "n", "c", "e", "l", "a", "d", "o">>)
    ELSE code

\* The one product of the one listed customer
OnlyProduct == Listing(1)[1]

\* C21: the status of a pension product record is read from the certificate
\* status of the product and the status of a life product record from its
\* title status; the code 'A' becomes 'Ativo', the code 'C' becomes
\* 'Cancelado', and anything else, a missing status included, is passed on as
\* it is.
C21_ProductStatus ==
    (hv.workflow = "customers" /\ hv.returned /\ Len(hv.results) = 1
        /\ Resolved(1) /\ Len(Listing(1)) = 1) =>
        /\ OnlyProduct.linhaNegocio = Txt("PREV") =>
              /\ Len(hv.sheets[2].data) = 1
              /\ hv.sheets[2].data[1].situacao_produto
                    = StatusOfCode(OnlyProduct.situacaoCertificado)
        /\ OnlyProduct.linhaNegocio = Txt("VIDA") =>
              /\ Len(hv.sheets[3].data) = 1
              /\ hv.sheets[3].data[1].situacao_produto
                    = StatusOfCode(OnlyProduct.situacaoTitulo)

\* A pension product with the certificate code 'C' and the title code 'A'
\* was returned as 'Cancelado'.
C21_Witness ==
    /\ hv.workflow = "customers" /\ hv.returned /\ Len(hv.results) = 1
    /\ Resolved(1) /\ Len(Listing(1)) = 1
    /\ OnlyProduct.linhaNegocio = Txt("PREV")
    /\ OnlyProduct.situacaoCertificado = Txt("C") /\ OnlyProduct.situacaoTitulo = Txt("A")
    /\ Len(hv.sheets[2].data) = 1
    /\ hv.sheets[2].data[1].situacao_produto = Cancelado

---------------------------------------------------------------------------
(* What is committed stays *)

\* The tables a batch operation writes to
Writes(kind) ==
    CASE kind = "clientes" -> {"clientes"}
      [] kind = "propostas" -> {"clientes", "propostas"}
      [] kind = "inadimplentes" -> {"inadimplentes"}
      [] OTHER -> {"clientes", "vida", "previdencia"}

\* The step ends a batch operation with its commit
Commits == pc = "loop" /\ pc' = "done"

C22_Step ==
    /\ ~Commits => db' = db
    /\ \A kind \in Kinds :
          /\ \A r \in Table(db, kind) : HasRow(Table(db', kind), r.id)
          /\ kind \notin Writes(op) => Table(db', kind) = Table(db, kind)

\* C22: the committed store changes only when a batch operation commits; no
\* step of any batch operation, whether a record raises, a rollback is made or
\* no connection is had, removes a committed row, and the commit of an
\* operation leaves the tables of the other operations as they are: what the
\* earlier operations of the file committed is still in the store when main
\* is through with the file.
C22_CommittedStays ==
    /\ [][C22_Step]_vars
    /\ [](\A kind \in Kinds : \A r \in Table(fl.db0, kind) : HasRow(Table(db, kind), r.id))

\* The customer function inserted the customer of the file and committed; in
\* the proposal function the second record raised and the rollback took the
\* first proposal with it: the customer is in the store, no proposal of the
\* tenant is.
C22_Witness ==
    /\ fl.stage = "end" /\ fl.called = <<"clientes", "propostas">>
    /\ op = "propostas" /\ Len(log) = 2
    /\ log[1].out = "inserted" /\ log[2].out = "error"
    /\ \E r \in db.clients : r \notin fl.db0.clients /\ r.nome = ClienteBase.nome
    /\ \A r \in db.proposals : r.tenant_id # TENANT_ID

---------------------------------------------------------------------------
(* The frame of a batch function *)

\* The run had a connection and a broker, and nothing raised outside the
\* body of a record
CleanRun == bt.conn # "none" /\ bt.broker /\ ~bt.batch_exc

C23_Step ==
    bt'.commits # bt.commits => (bt.i > bt.n /\ Len(bt.processed) = bt.n)

\* C23: the records are taken up in input order, one after the other, those
\* after a record that raised included; a run that had a connection and a
\* broker and no exception outside a record's body commits exactly once,
\* after the last record, and no run commits more than once; the function
\* returns with its connection closed whenever it had one; and after an
\* exception in a record the function goes on to return.
C23_OrderAndOneCommit ==
    /\ [](/\ \A j \in 1..Len(bt.processed) : bt.processed[j] = j
          /\ bt.commits <= 1
          /\ bt.at = "returned" =>
                /\ bt.conn # "open"
                /\ CleanRun => (bt.commits = 1 /\ Len(bt.processed) = bt.n))
    /\ [][C23_Step]_vars
    /\ ((bt.at = "except") ~> (bt.at = "returned"))

\* Three records, the second raised: all three were taken up, in order, one
\* commit was made and the connection is closed.
C23_Witness ==
    /\ bt.at = "returned" /\ bt.n = 3 /\ bt.raised = {2}
    /\ bt.processed = <<1, 2, 3>>
    /\ bt.commits = 1 /\ bt.rollbacks = 1 /\ bt.conn = "closed"

---------------------------------------------------------------------------
(* Failed calls *)

\* The step is a page request
Requests == pg'.requests # pg.requests

C24_Step ==
    /\ Requests =>
          /\ pg'.requests = Append(pg.requests, pg.page_count)
          /\ pg.requests # << >> => pg.page_count > pg.requests[Len(pg.requests)]
          /\ pg'.last \in {"empty", "failed"} =>
                (pg'.done /\ pg'.list = pg.list /\ pg'.page_count = pg.page_count)
    /\ pg.done => pg'.requests = pg.requests

\* C24: a call never raises into the listing loop; a call that ends with an
\* error status, 401 included, returns no result without waiting, and one that
\* ends with a transport error, a timeout or a body that is no JSON returns no
\* result after one wait of ERROR_DELAY seconds; each request is for a page
\* after the one requested last, so that no page is requested twice; a
\* page request without a result ends the listing as an empty page does: the
\* list and the page counter are as they were, the loop is over and no further
\* request is made.
C24_NoResultEndsListing ==
    /\ [](/\ pg.last # "raised"
          /\ pg.outcome \in {"status", "unauthorized"} => (pg.last = "failed" /\ pg.slept = 0)
          /\ pg.outcome \in {"transport", "timeout", "decode"} =>
                (pg.last = "failed" /\ pg.slept = ERROR_DELAY)
          /\ pg.last = "failed" => pg.done)
    /\ [][C24_Step]_vars

\* The customer listing of an endpoint with three pages: the third request
\* timed out, and the listing ended with the first two pages.
C24_Witness ==
    /\ pg.endpoint = "customers" /\ pg.served = 3 /\ pg.done
    /\ pg.outcome = "timeout" /\ pg.slept = ERROR_DELAY /\ pg.last = "failed"
    /\ pg.requests = <<1, 2, 3>> /\ pg.list = <<1, 2>>

---------------------------------------------------------------------------
(* The calls of a fan-out *)

\* Result k has come in and is that of a customer with an internal id
ResolvedIn(k) == hv.results[k] # Pending /\ Resolved(k)

\* Result k has come in and is that of a proposal with an installment
SucceededIn(k) == hv.results[k] # Pending /\ Succeeded(k)

C25_Step ==
    (hv.workflow # "none" /\ hv'.workflow = hv.workflow) =>
        /\ Len(hv'.results) = Len(hv.results)
        /\ \A k \in 1..Len(hv.results) :
              hv.results[k] # Pending => hv'.results[k] = hv.results[k]

\* C25: the workflow waits for every call of the fan-out and drops none of
\* them, whatever the others returned, and once they are issued it goes on to
\* return; in what it returns, a listed customer whose calls both returned
\* something has its Customer record and its products whether or not the
\* calls of other customers failed, and a listed proposal has its record
\* exactly when its own call returned an installment.
C25_FanOutCompletes ==
    /\ [](/\ (hv.i > 1 \/ hv.returned) =>
                \A k \in 1..Len(hv.results) : hv.results[k] # Pending
          /\ (hv.workflow = "customers" /\ hv.returned) =>
                /\ \A k \in 1..Len(hv.results) : ResolvedIn(k) =>
                      /\ \E a \in 1..Len(hv.sheets[1].data) :
                            hv.sheets[1].data[a].id_cliente = InternalId(k)
                      /\ PensionCount(k) > 0 => FromResult(hv.sheets[2].data, k) # {}
                      /\ BenefitCount(k, Len(Listing(k))) > 0 =>
                            FromResult(hv.sheets[3].data, k) # {}
                /\ Len(hv.sheets[2].data) = SumOver(Len(hv.results), 1, FALSE)
                /\ Len(hv.sheets[3].data) = SumOver(Len(hv.results), 1, TRUE)
          /\ (hv.workflow = "proposals" /\ hv.returned) =>
                /\ \A k \in 1..Len(hv.results) : SucceededIn(k) =>
                      \E j \in 1..Len(hv.sheets[1].data) : hv.sheets[1].data[j] = StatusOf(k)
                /\ Len(hv.sheets[1].data)
                      = Cardinality({k \in 1..Len(hv.results) : SucceededIn(k)}))
    /\ [][C25_Step]_vars
    /\ ((hv.workflow # "none") ~> hv.returned)

\* Three customers were listed; the calls of the third returned first, the
\* details call of the second failed: the workflow returned the records of
\* the first and of the third.
C25_Witness ==
    /\ hv.workflow = "customers" /\ hv.returned /\ Len(hv.results) = 3
    /\ ResolvedIn(1) /\ ~hv.results[2].details_res.truthy /\ ResolvedIn(3)
    /\ InternalId(1) # InternalId(3)
    /\ Len(hv.sheets[1].data) = 2
    /\ hv.sheets[1].data[1].id_cliente = InternalId(1)
    /\ hv.sheets[1].data[2].id_cliente = InternalId(3)

---------------------------------------------------------------------------
(* Counters and the committed store *)

\* The rows of the operation's table the run added to the store
RowsInserted == {r \in Table(db, op) : ~HasRow(Table(snap, op), r.id)}

\* The rows of the operation's table the run left changed in the store
RowsChanged ==
    {r \in Table(db, op) : HasRow(Table(snap, op), r.id) /\ r \notin Table(snap, op)}

\* C26: when a batch operation has committed, the number of rows it added to
\* its table is the 'inserted' count it reports and the number of rows it
\* changed is the 'updated' count, also when a record raised and the
\* transaction was rolled back on the way.
C26_CountersMatchStore ==
    pc = "done" =>
        /\ Cardinality(RowsInserted) = cnt.inseridos
        /\ Cardinality(RowsChanged) = cnt.atualizados

---------------------------------------------------------------------------
(* Natural keys *)

\* The natural key of a stored row of each table
NaturalKey(kind, r) ==
    CASE kind = "clientes" -> <<r.tenant_id, r.documento>>
      [] kind = "propostas" -> <<r.tenant_id, r.proposta>>
      [] kind = "inadimplentes" ->
            <<r.tenant_id, r.client_id, r.proposal_number, r.certificate_number,
              r.competency>>
      [] OTHER ->
            <<r.tenant_id, r.client_id, r.proposal_number, r.certificate_number,
              r.coverage_name>>

TableKinds == {"clientes", "propostas", "inadimplentes", "vida"}

\* C27: whatever runs a single sync process has made on a store whose natural
\* keys were unique, the store holds at most one row per natural key, a key
\* with null fields included.
C27_OneRowPerNaturalKey ==
    \A kind \in TableKinds : \A r, q \in Table(db, kind) :
        NaturalKey(kind, r) = NaturalKey(kind, q) => r.id = q.id

---------------------------------------------------------------------------
(* The product batches of the customer workflow *)

ClientesSheet == hv.sheets[1].data
PrevidenciaSheet == hv.sheets[2].data
VidaSheet == hv.sheets[3].data

ResolvedResults == {k \in 1..Len(hv.results) : Resolved(k)}

\* The listed products (result, position) of one line of business that belong
\* to a customer id and carry a proposal number
ListedProducts(linha, id, proposta) ==
    UNION {{<<k, j>> : j \in {j \in 1..Len(Listing(k)) :
                                /\ Listing(k)[j].linhaNegocio = Txt(linha)
                                /\ Listing(k)[j].proposta = proposta}} :
           k \in {k \in ResolvedResults : InternalId(k) = id}}

\* The listed benefits (result, position, benefit) of that name
ListedBenefits(id, proposta, nome) ==
    UNION {{<<kj[1], kj[2], b>> :
               b \in {b \in 1..Len(Listing(kj[1])[kj[2]].vida.beneficios) :
                         Listing(kj[1])[kj[2]].vida.beneficios[b].nomeBeneficio = nome}} :
           kj \in ListedProducts("VIDA", id, proposta)}

RecordsOf(sheet, id, proposta) ==
    {j \in 1..Len(sheet) : sheet[j].id_cliente = id /\ sheet[j].numero_proposta = proposta}

HarvestIds ==
    {InternalId(k) : k \in ResolvedResults}
    \cup {PrevidenciaSheet[j].id_cliente : j \in 1..Len(PrevidenciaSheet)}
    \cup {VidaSheet[j].id_cliente : j \in 1..Len(VidaSheet)}

HarvestProposals ==
    UNION {{Listing(k)[j].proposta : j \in 1..Len(Listing(k))} : k \in ResolvedResults}
    \cup {PrevidenciaSheet[j].numero_proposta : j \in 1..Len(PrevidenciaSheet)}
    \cup {VidaSheet[j].numero_proposta : j \in 1..Len(VidaSheet)}

HarvestBenefits ==
    UNION {UNION {{Listing(k)[j].vida.beneficios[b].nomeBeneficio :
                      b \in 1..Len(Listing(k)[j].vida.beneficios)} :
                  j \in 1..Len(Listing(k))} : k \in ResolvedResults}
    \cup {VidaSheet[j].nome_cobertura : j \in 1..Len(VidaSheet)}

\* C28: in what the customer workflow returns, every pension and every life
\* record carries the id of a record of the Clientes batch; the pension
\* records of a customer id and proposal are as many as the pension products
\* listed for them, the life records of a customer id, proposal and coverage
\* as many as the benefits of that name listed for them (none for a life
\* product without benefits); and a customer whose details call or products
\* call returned nothing has no part in any of the three batches.
C28_ProductsOfListedCustomers ==
    (hv.workflow = "customers" /\ hv.returned) =>
        /\ \A j \in 1..Len(PrevidenciaSheet) : \E a \in 1..Len(ClientesSheet) :
              ClientesSheet[a].id_cliente = PrevidenciaSheet[j].id_cliente
        /\ \A j \in 1..Len(VidaSheet) : \E a \in 1..Len(ClientesSheet) :
              ClientesSheet[a].id_cliente = VidaSheet[j].id_cliente
        /\ \A a \in 1..Len(ClientesSheet) :
              \E k \in ResolvedResults : InternalId(k) = ClientesSheet[a].id_cliente
        /\ \A id \in HarvestIds : \A proposta \in HarvestProposals :
              /\ Cardinality(RecordsOf(PrevidenciaSheet, id, proposta))
                    = Cardinality(ListedProducts("PREV", id, proposta))
              /\ \A nome \in HarvestBenefits :
                    Cardinality({j \in RecordsOf(VidaSheet, id, proposta) :
                                    VidaSheet[j].nome_cobertura = nome})
                        = Cardinality(ListedBenefits(id, proposta, nome))

\* Three customers were listed: the first has a life product with two
\* benefits, the products call of the second returned nothing, the third has
\* a pension product and a life product without benefits. The workflow
\* returned two Customer records, one pension record and two life records.
C28_Witness ==
    /\ hv.workflow = "customers" /\ hv.returned /\ Len(hv.results) = 3
    /\ Resolved(1) /\ Len(Listing(1)) = 1 /\ Len(Listing(1)[1].vida.beneficios) = 2
    /\ hv.results[2].details_res.truthy /\ ~hv.results[2].products_res.truthy
    /\ Resolved(3) /\ Len(Listing(3)) = 3
    /\ Len(ClientesSheet) = 2 /\ Len(PrevidenciaSheet) = 1 /\ Len(VidaSheet) = 2
    /\ PrevidenciaSheet[1].numero_proposta = Txt("9")

---------------------------------------------------------------------------
(* Permits *)

Waiting == sem.todo.page + sem.todo.details + sem.todo.products + sem.todo.installment

\* A call returns
Returns == InFlight' = InFlight - 1

C29_Step == Returns => sem'.value = sem.value + 1

\* C29: a call gives its permit back however it ends, with a result, with an
\* error status or with another error after its wait: the free permits stay
\* between 0 and CONCURRENCY_LIMIT, are CONCURRENCY_LIMIT again whenever no
\* call is in flight, and once the calls of a fan-out are started each of
\* them gets a permit and returns, however many of the others failed.
C29_PermitsComeBack ==
    /\ [](/\ sem.value \in 0..CONCURRENCY_LIMIT
          /\ InFlight = 0 => sem.value = CONCURRENCY_LIMIT
          /\ Waiting > 0 => (sem.value > 0 \/ InFlight > 0))
    /\ [][C29_Step]_vars
    /\ ((sem.workflow # "none" /\ ~sem.listing) ~> (Waiting = 0 /\ InFlight = 0))

\* Detail calls of the proposal workflow have failed, none is in flight, and
\* the pool is full again while more calls than there are permits wait.
C29_Witness ==
    /\ sem.workflow = "proposals" /\ ~sem.listing /\ sem.failed
    /\ InFlight = 0 /\ Waiting > CONCURRENCY_LIMIT
    /\ sem.value = CONCURRENCY_LIMIT

---------------------------------------------------------------------------
(* The order of the batch operations of a file *)

Rank(kind) ==
    CASE kind = "clientes" -> 1
      [] kind = "propostas" -> 2
      [] kind = "inadimplentes" -> 3
      [] kind = "vida" -> 4
      [] OTHER -> 5

\* main has what salvar_clientes_no_banco returned and goes on to the
\* dependent batches of a file that has a Clientes section; it holds a broker
\* id and a dependent batch to call with it.
DependentsFollow ==
    /\ fl.stage = "broker" /\ fl'.stage = "propostas"
    /\ fl.data.clientes # << >>
    /\ fl'.broker_id # 0
    /\ \E kind \in Dependent : fl.data[kind] # << >>

C30_Step ==
    /\ DependentsFollow => (op = "clientes" /\ pc = "done")
    /\ (fl'.folder = "processados" /\ fl.folder # "processados") =>
          (fl.stage = "move" /\ pc \in Returned)
    /\ \A r \in db.clients : r \in db'.clients
    /\ \A r \in tx.clients : r \in tx'.clients \/ tx'.clients = db.clients

\* C30: for each file, the Customers batch has been synchronized and committed
\* when the first dependent batch starts, the batch functions are called in
\* the order customers, proposals, pending payments, life products, pension
\* products, the file is moved only when every batch function called for it
\* has returned, and no step changes or removes a customer row.
C30_CustomersFirst ==
    /\ [](\A i, j \in 1..Len(fl.called) : i < j => Rank(fl.called[i]) < Rank(fl.called[j]))
    /\ [](fl.folder = "processados" => (fl.stage = "end" /\ pc = "idle"))
    /\ [][C30_Step]_vars

====
